---- MODULE Spec2Model ----
(***************************************************************************)
(* A model of the lzss compressor of Consensys/compress: the incremental   *)
(* Compressor (Write / Revert / ConsiderBypassing / Reset / Compress), its *)
(* token chooser, the bit writer it drives, the size estimator             *)
(* CompressedSize256k, AugmentDict and NewCompressor, the header, and      *)
(* Decompress; of Stream.FillBytes / ReadBytes; and of the huffman code,   *)
(* Encoder and Decoder.                                                    *)
(*                                                                         *)
(* Bytes are integers 0..255, buffers are sequences of bytes.  The field   *)
(* widths and size limits of the program (2^8-byte references, 14- and     *)
(* 21-bit addresses, 2^22-byte inputs) are scaled down to the values below *)
(* so that every path of the chooser is taken by inputs of a few bytes;    *)
(* the scaled values keep the program's order                              *)
(*   short window < dynamic window <= MaxInputSize.                        *)
(***************************************************************************)
EXTENDS Integers, Sequences, FiniteSets, TLC

\* ---------------------------------------------------------------- constants
HeaderSize == 3
Version == 1
SymbolShort == 254
SymbolDynamic == 255
NoCompression == 0
BestCompression == 1

\* scaled widths and limits (program values in comments)
maxBackrefLenLog2 == 2      \* 8
shortAddrBits == 1          \* 14
dynAddrBits == 2            \* 21
minRepeatingBytes == 3      \* 160
MaxInputSize == 5           \* 1 << 22
MaxDictSize == 8            \* 1 << 22, twice the reach of a dynamic address

\* math.MinInt: below every savings value the chooser can compute
MinInt == -1000000

\* ------------------------------------------------------------ byte helpers
Min(a, b) == IF a < b THEN a ELSE b
Max(a, b) == IF a > b THEN a ELSE b

\* s[from:to] of Go, 0-based, to exclusive
Slice(s, from, to) == IF to <= from THEN <<>> ELSE SubSeq(s, from + 1, to)

\* s[i] of Go, 0-based
At(s, i) == s[i + 1]

\* ------------------------------------------------- bitio.Writer on outBuf
\* A writer is [buf, cache, bits]: the bytes flushed so far, the cache byte
\* holding the pending bits left-aligned, and the number of pending bits.

\* Writer.WriteBits / TryWriteBits: append the n lowest bits of r, MSB first
WriteBits(w, r, n) ==
    LET v       == r % (2 ^ n)
        pending == IF w.bits = 0 THEN 0 ELSE w.cache \div (2 ^ (8 - w.bits))
        total   == w.bits + n
        all     == pending * (2 ^ n) + v
        nbytes  == total \div 8
        rem     == total % 8
        out     == [k \in 1..nbytes |-> (all \div (2 ^ (total - 8 * k))) % 256]
    IN  [buf   |-> w.buf \o out,
         cache |-> (all % (2 ^ rem)) * (2 ^ (8 - rem)) % 256,
         bits  |-> rem]

\* Writer.TryWriteByte
TryWriteByte(w, b) == WriteBits(w, b, 8)

\* Writer.Align: flush the cache padded with zero bits; skipped = padding bits
Align(w) ==
    IF w.bits > 0
    THEN [w |-> [buf |-> Append(w.buf, w.cache), cache |-> 0, bits |-> 0],
          skipped |-> 8 - w.bits]
    ELSE [w |-> w, skipped |-> 0]

\* ------------------------------------------------------------------ header
ind(b) == IF b THEN 1 ELSE 0

\* Header.WriteTo: big-endian uint16 version, then the indicator byte
HeaderBytes(noCompression) ==
    << Version \div 256, Version % 256, ind(noCompression) >>

\* Header.WriteTo applied to [Version, NoCompression]: the version as a
\* big-endian uint16, then the indicator byte
WriteTo(h) == << (h.Version \div 256) % 256, h.Version % 256, ind(h.NoCompression) >>

\* mutant: an indInv that takes every non-zero byte for true
indInv_lenient(b) == [v |-> b # 0, err |-> ""]
\* indInv
indInv(b) ==
    IF b = 0 THEN [v |-> FALSE, err |-> ""]
    ELSE IF b = 1 THEN [v |-> TRUE, err |-> ""]
    ELSE [v |-> FALSE, err |-> "BadFlag"]

\* Header.ReadFrom, once the three bytes are read: [n, h, err]
headerOf(data, flag) ==
    [n |-> HeaderSize,
     h |-> [Version |-> data[1] * 256 + data[2], NoCompression |-> flag.v],
     err |-> flag.err]

\* Header.ReadFrom on the bytes of data; io.ReadFull fails on fewer than three
ReadFrom(data) ==
    IF Len(data) < HeaderSize
    THEN [n |-> Len(data), h |-> [Version |-> 0, NoCompression |-> FALSE], err |-> "Truncated"]
    ELSE headerOf(data, indInv(data[3]))

\* ------------------------------------------------------------- dictionary
\* mutant: a canEncodeSymbol that forgets SymbolShort
canEncodeSymbol_dynamicOnly(b) == b # SymbolDynamic
\* canEncodeSymbol
canEncodeSymbol(b) == b # SymbolDynamic /\ b # SymbolShort

Contains(s, b) == \E k \in 1..Len(s) : s[k] = b

\* mutant: an AugmentDict that appends without looking
AugmentDict_always(dict) == dict \o << SymbolShort, SymbolDynamic >>
\* AugmentDict: unchanged if both reserved symbols occur, else both appended
AugmentDict(dict) ==
    IF Contains(dict, SymbolShort) /\ Contains(dict, SymbolDynamic)
    THEN dict
    ELSE dict \o << SymbolShort, SymbolDynamic >>

\* NewCompressor: index of each reserved symbol in the augmented dictionary.
\* The scan stops at the first position where both have been seen; a later
\* occurrence before that position overwrites an earlier one.
dictReservedIdxOf(dict) ==
    LET both(p) == Contains(SubSeq(dict, 1, p), SymbolShort)
                   /\ Contains(SubSeq(dict, 1, p), SymbolDynamic)
        stop    == CHOOSE p \in 1..Len(dict) :
                       both(p) /\ \A q \in 1..(p - 1) : ~both(q)
        last(b) == CHOOSE k \in 1..stop :
                       dict[k] = b /\ \A j \in (k + 1)..stop : dict[j] # b
    IN  [b \in {SymbolShort, SymbolDynamic} |-> last(b) - 1]

\* --------------------------------------------------------- backref types
newBackRefType(symbol, nbBitsAddress, nbBitsLength, dictLen) ==
    [Delimiter      |-> symbol,
     NbBitsAddress  |-> nbBitsAddress,
     NbBitsLength   |-> nbBitsLength,
     NbBitsBackRef  |-> 8 + nbBitsAddress + nbBitsLength,
     nbBytesBackRef |-> (8 + nbBitsAddress + nbBitsLength + 7) \div 8,
     maxAddress     |-> 2 ^ nbBitsAddress,
     maxLength      |-> 2 ^ nbBitsLength,
     DictLen        |-> dictLen]

NewShortBackrefType == newBackRefType(SymbolShort, shortAddrBits, maxBackrefLenLog2, 0)

NewDynamicBackrefType(dictLen, addressableBytes) ==
    newBackRefType(SymbolDynamic, dynAddrBits, maxBackrefLenLog2, dictLen)

\* backref.savings
savings(b) ==
    IF b.length = -1 THEN MinInt ELSE 8 * b.length - b.bType.NbBitsBackRef

\* backref.writeTo: delimiter, length-1, then (i + DictLen) - address - 1
addrToWrite(b, i) == (i + b.bType.DictLen) - b.address - 1

writeTo(b, w, i) ==
    LET w1 == TryWriteByte(w, b.bType.Delimiter)
        w2 == WriteBits(w1, b.length - 1, b.bType.NbBitsLength)
    IN  WriteBits(w2, addrToWrite(b, i), b.bType.NbBitsAddress)

\* ------------------------------------------------------ suffix-array index
\* Index.LookupLongest over `data`: the longest l in minLen..maxLen such that
\* query[0:l] occurs at an offset a in [rangeStart, rangeEnd) with
\* a + l <= rangeEnd; (-1, -1) if there is none.  Among equally long matches
\* the index's order decides; `order` is "first" or "last" offset.
LookupLongest(data, query, minLen, maxLen, rangeStart, rangeEnd, order) ==
    LET matches(a, l) == a + l <= rangeEnd /\ a + l <= Len(data)
                         /\ \A k \in 0..(l - 1) : At(data, a + k) = At(query, k)
        lens == {l \in Max(minLen, 1)..maxLen :
                    \E a \in rangeStart..(rangeEnd - 1) : matches(a, l)}
    IN  IF lens = {} THEN [addr |-> -1, length |-> -1]
        ELSE LET l    == CHOOSE x \in lens : \A y \in lens : y <= x
                 offs == {a \in rangeStart..(rangeEnd - 1) : matches(a, l)}
                 a    == IF order = "first"
                         THEN CHOOSE x \in offs : \A y \in offs : x <= y
                         ELSE CHOOSE x \in offs : \A y \in offs : y <= x
             IN  [addr |-> a, length |-> l]

\* findBackRef, after the lookups: the match in the window (its address
\* counted from the start of the dictionary for a dynamic type), or the
\* match in the dictionary when that one is longer
pickMatch(inp, dic, isDyn, dictLen, maxLength) ==
    IF inp.length < maxLength /\ isDyn /\ dic.length > inp.length
    THEN [addr |-> dic.addr, length |-> dic.length]
    ELSE [addr |-> IF isDyn THEN inp.addr + dictLen ELSE inp.addr, length |-> inp.length]

\* findBackRef, once minLength and maxLength are fixed
searchWindow(data, i, bType, minLength, maxLength, dictData, order) ==
    IF i + minLength > Len(data) \/ minLength > maxLength
    THEN [addr |-> -1, length |-> -1]
    ELSE pickMatch(LookupLongest(data, Slice(data, i, i + maxLength), minLength, maxLength,
                                 Max(0, i - bType.maxAddress), i, order),
                   LookupLongest(dictData, Slice(data, i, i + maxLength), minLength,
                                 maxLength, 0, Len(dictData), order),
                   bType.Delimiter = SymbolDynamic, Len(dictData), maxLength)

\* findBackRef: the longest match for data[i:] in the window of bType, and,
\* for a dynamic type, in the dictionary when that match is longer
findBackRef(data, i, bType, minLength0, dictData, order) ==
    searchWindow(data, i, bType,
                 IF minLength0 = -1 THEN bType.nbBytesBackRef ELSE minLength0,
                 Min(2 ^ maxBackrefLenLog2, Len(data) - i),
                 dictData, order)

\* ------------------------------------------------- lookahead ring buffer
circularBufferSize == 3

NoBackref == [address |-> 0, length |-> 0, bType |-> newBackRefType(0, 0, 0, 0)]

newCircularBuffer ==
    [k |-> 0, keys |-> << -1, -1, -1 >>, bestBackref |-> << NoBackref, NoBackref, NoBackref >>]

\* circularBuffer.push
cbPush(cb, b, at) ==
    [k           |-> (cb.k + 1) % circularBufferSize,
     keys        |-> [cb.keys EXCEPT ![cb.k + 1] = at],
     bestBackref |-> [cb.bestBackref EXCEPT ![cb.k + 1] = b]]

\* circularBuffer.best answering for `at` with whatever the slot written
\* last holds
cbBest_lastPushed(cb, at) ==
    LET last == ((cb.k + circularBufferSize - 1) % circularBufferSize) + 1
    IN  IF cb.keys[last] = -1 THEN [ok |-> FALSE, b |-> NoBackref]
        ELSE [ok |-> TRUE, b |-> cb.bestBackref[last]]

\* circularBuffer.best: the first slot whose key is `at`
cbBest(cb, at) ==
    LET hits == {s \in 1..circularBufferSize : cb.keys[s] = at}
    IN  IF hits = {} THEN [ok |-> FALSE, b |-> NoBackref]
        ELSE [ok |-> TRUE,
              b  |-> cb.bestBackref[CHOOSE s \in hits : \A t \in hits : s <= t]]

\* bestBackref closure: the better of the short and the dynamic backref
betterOf(bShort, bDynamic) ==
    IF bShort.length # -1 /\ savings(bShort) > savings(bDynamic) THEN bShort ELSE bDynamic

\* bestBackref closure: a backref of type bType at the match found
backrefAt(found, bType) ==
    [address |-> found.addr, length |-> found.length, bType |-> bType]

\* bestBackref closure, "we haven't computed the backref yet"
computeBackref(d, at, minLen, dictData, order) ==
    betterOf(backrefAt(findBackRef(d, at, NewShortBackrefType, minLen, dictData, order),
                       NewShortBackrefType),
             backrefAt(findBackRef(d, at, NewDynamicBackrefType(Len(dictData), at), minLen,
                                   dictData, order),
                       NewDynamicBackrefType(Len(dictData), at)))

\* bestBackref closure, "we store the best backref in the circular buffer"
stored(cb, b, at) == [b |-> b, cb |-> cbPush(cb, b, at)]

\* bestBackref closure, given what the ring buffer holds for `at`
cachedOr(hit, d, at, cb, dictData, order) ==
    IF hit.ok THEN [b |-> hit.b, cb |-> cb]
    ELSE stored(cb,
                computeBackref(d, at, IF ~canEncodeSymbol(At(d, at)) THEN 1 ELSE -1,
                               dictData, order),
                at)

\* bestBackref closure of Compressor.write: the cached backref for `at`, or
\* the better of the short and the dynamic one, which is then cached
bestBackref(d, at, cb, dictData, order) ==
    cachedOr(cbBest(cb, at), d, at, cb, dictData, order)

\* ------------------------------------------------------- Compressor.write
\* What write hands to its writer, in order: a literal byte (TryWriteByte) or
\* a backref (writeTo), with the input position it was emitted at; `first`
\* marks the first token of a turn of the loop of write.
LitTok(b, i) == [lit |-> TRUE, b |-> b, br |-> NoBackref, at |-> i, first |-> FALSE]
RefTok(br, i) ==
    [lit |-> FALSE, b |-> br.bType.Delimiter, br |-> br, at |-> i, first |-> FALSE]

\* the tokens of one turn of the loop of write, the first one marked
Turn(toks) == [n \in 1..Len(toks) |-> [toks[n] EXCEPT !.first = (n = 1)]]

\* the number of input bytes a token stands for
TokLen(t) == IF t.lit THEN 1 ELSE t.br.length

\* the run counter at the top of the loop of write
RECURSIVE RunCount(_, _, _)
RunCount(d, i, count) ==
    IF i + count < Len(d) /\ count < 2 ^ maxBackrefLenLog2 /\ At(d, i) = At(d, i + count)
    THEN RunCount(d, i, count + 1)
    ELSE count

\* the run-length path writing the symbol at i also when the previous byte
\* is the same
RunTokens_alwaysHead(d, i, count, dictData, reservedIdx) ==
    LET dictLen  == Len(dictData)
        bDict    == [address |-> reservedIdx[At(d, i)], length |-> 1,
                     bType |-> NewDynamicBackrefType(dictLen, i)]
        headTok  == IF ~canEncodeSymbol(At(d, i)) THEN RefTok(bDict, i) ELSE LitTok(At(d, i), i)
        bShort   == [address |-> i, length |-> count - 1, bType |-> NewShortBackrefType]
        bDynamic == [address |-> dictLen + i, length |-> count - 1,
                     bType |-> NewDynamicBackrefType(dictLen, i + 1)]
        body     == IF savings(bShort) > savings(bDynamic) THEN bShort ELSE bDynamic
    IN  << headTok, RefTok(body, i + 1) >>

\* the run-length path of write at position i with run length count
RunTokens(d, i, count, dictData, reservedIdx) ==
    LET dictLen  == Len(dictData)
        head     == ~(i > 0 /\ At(d, i - 1) = At(d, i))
        bDict    == [address |-> reservedIdx[At(d, i)], length |-> 1,
                     bType |-> NewDynamicBackrefType(dictLen, i)]
        headTok  == IF ~canEncodeSymbol(At(d, i)) THEN RefTok(bDict, i) ELSE LitTok(At(d, i), i)
        i1       == IF head THEN i + 1 ELSE i
        cnt      == IF head THEN count - 1 ELSE count
        bShort   == [address |-> i1 - 1, length |-> cnt, bType |-> NewShortBackrefType]
        bDynamic == [address |-> dictLen + i1 - 1, length |-> cnt,
                     bType |-> NewDynamicBackrefType(dictLen, i1)]
        body     == IF savings(bShort) > savings(bDynamic) THEN bShort ELSE bDynamic
    IN  (IF head THEN << headTok >> ELSE << >>) \o << RefTok(body, i1) >>

\* the general path of write, "maybe at i+2 ?": r2 is bestBackref(i + 2)
lookahead2(d, i, bestAtI, r2) ==
    IF savings(r2.b) > savings(bestAtI) + 2
    THEN [toks |-> << LitTok(At(d, i), i), LitTok(At(d, i + 1), i + 1) >>, cb |-> r2.cb]
    ELSE [toks |-> << RefTok(bestAtI, i) >>, cb |-> r2.cb]

\* lookahead1 preferring the literal also when the next backref saves
\* exactly one bit more
lookahead1_orEqual(d, i, bestAtI, r1, dictData, order) ==
    IF savings(r1.b) >= savings(bestAtI) + 1
    THEN [toks |-> << LitTok(At(d, i), i) >>, cb |-> r1.cb]
    ELSE IF i + 2 < Len(d) /\ canEncodeSymbol(At(d, i + 1))
    THEN lookahead2(d, i, bestAtI, bestBackref(d, i + 2, r1.cb, dictData, order))
    ELSE [toks |-> << RefTok(bestAtI, i) >>, cb |-> r1.cb]

\* the general path of write, "we will try to find a better backref": r1 is
\* bestBackref(i + 1)
lookahead1(d, i, bestAtI, r1, dictData, order) ==
    IF savings(r1.b) > savings(bestAtI) + 1
    THEN [toks |-> << LitTok(At(d, i), i) >>, cb |-> r1.cb]
    ELSE IF i + 2 < Len(d) /\ canEncodeSymbol(At(d, i + 1))
    THEN lookahead2(d, i, bestAtI, bestBackref(d, i + 2, r1.cb, dictData, order))
    ELSE [toks |-> << RefTok(bestAtI, i) >>, cb |-> r1.cb]

\* the general path of write at position i, r0 being bestBackref(i)
chooseAt(d, i, r0, dictData, order) ==
    IF ~canEncodeSymbol(At(d, i))
    THEN [toks |-> << RefTok(r0.b, i) >>, cb |-> r0.cb]
    ELSE IF savings(r0.b) < 0
    THEN [toks |-> << LitTok(At(d, i), i) >>, cb |-> r0.cb]
    ELSE IF i + 1 < Len(d)
    THEN lookahead1(d, i, r0.b, bestBackref(d, i + 1, r0.cb, dictData, order),
                    dictData, order)
    ELSE [toks |-> << RefTok(r0.b, i) >>, cb |-> r0.cb]

\* one turn of the general path of write at position i: the tokens it emits
\* and the ring buffer it leaves
ChooseTokens(d, i, cb, dictData, order) ==
    chooseAt(d, i, bestBackref(d, i, cb, dictData, order), dictData, order)

\* the bytes of input a sequence of tokens stands for
RECURSIVE TokSpan(_)
TokSpan(toks) == IF toks = << >> THEN 0 ELSE TokLen(Head(toks)) + TokSpan(Tail(toks))

RECURSIVE writeLoop(_, _, _, _, _, _)

\* the loop of write after a turn of the general path gave r
afterTurn(d, i, r, dictData, reservedIdx, order) ==
    Turn(r.toks) \o writeLoop(d, i + TokSpan(r.toks), r.cb, dictData, reservedIdx, order)

\* one turn of the loop of write at position i, count being the run length
loopTurn(d, i, count, cb, dictData, reservedIdx, order) ==
    IF count >= minRepeatingBytes
    THEN Turn(RunTokens(d, i, count, dictData, reservedIdx))
             \o writeLoop(d, i + count, cb, dictData, reservedIdx, order)
    ELSE afterTurn(d, i, ChooseTokens(d, i, cb, dictData, order),
                   dictData, reservedIdx, order)

\* the loop of write from position i
writeLoop(d, i, cb, dictData, reservedIdx, order) ==
    IF i >= Len(d) THEN << >>
    ELSE loopTurn(d, i, RunCount(d, i, 0), cb, dictData, reservedIdx, order)

\* Compressor.write: the tokens for d[startIndex:], chosen over all of d
write(d, startIndex, dictData, reservedIdx, order) ==
    writeLoop(d, startIndex, newCircularBuffer, dictData, reservedIdx, order)

\* the calls of write on its writer, applied to a bitio.Writer
RECURSIVE EmitTokens(_, _)
EmitTokens(w, toks) ==
    IF toks = << >> THEN w
    ELSE LET t == Head(toks)
         IN  EmitTokens(IF t.lit THEN TryWriteByte(w, t.b) ELSE writeTo(t.br, w, t.at),
                        Tail(toks))

\* ------------------------------------------------------------- Compressor
\* A compressor is a record of the fields of the Go struct; bwCache/bwBits
\* are the cache of bw, whose flushed bytes are outBuf.  inputIndex is the
\* suffix array of inBuf, rebuilt by every Write; `order` stands for the
\* order in which the index type lists equally long matches.
Bw(c) == [buf |-> c.outBuf, cache |-> c.bwCache, bits |-> c.bwBits]

WithBw(c, w) == [c EXCEPT !.outBuf = w.buf, !.bwCache = w.cache, !.bwBits = w.bits]

\* Compressor.Reset
Reset(c) ==
    [c EXCEPT !.level = c.intendedLevel,
              !.outBuf = HeaderBytes(c.intendedLevel = NoCompression),
              !.inBuf = << >>,
              !.lastOutLen = HeaderSize,
              !.lastNbSkippedBits = 0,
              !.justBypassed = FALSE,
              !.nbSkippedBits = 0,
              !.lastInLen = 0]

\* NewCompressor, for a dictionary it accepts
NewCompressor(dict, order) ==
    Reset([outBuf |-> << >>, bwCache |-> 0, bwBits |-> 0, nbSkippedBits |-> 0,
           inBuf |-> << >>,
           lastOutLen |-> 0, lastNbSkippedBits |-> 0, lastInLen |-> 0,
           justBypassed |-> FALSE,
           dictData |-> AugmentDict(dict),
           dictReservedIdx |-> dictReservedIdxOf(AugmentDict(dict)),
           level |-> NoCompression, intendedLevel |-> BestCompression,
           order |-> order])

\* NewCompressor returns an error for this dictionary
DictTooLarge(dict) == Len(AugmentDict(dict)) > MaxDictSize

\* Len, Written, Bytes
OutLen(c) == Len(c.outBuf)
Written(c) == Len(c.inBuf)
Bytes(c) == c.outBuf

\* mutant: a Write that forgets to shift the padding out of the last byte
lastByteOf_unshifted(c) == c.outBuf[Len(c.outBuf)]
\* Write, "reconstruct bit writer cache": the last output byte without its
\* padding bits
lastByteOf(c) == c.outBuf[Len(c.outBuf)] \div (2 ^ c.nbSkippedBits)

\* Write, "write uncompressed data if compression is disabled"
writeUncompressed(c, d) == [c EXCEPT !.outBuf = c.outBuf \o d]

\* Compressor.appendInput fails
InputTooLarge(c, d) == Len(c.inBuf) + Len(d) > MaxInputSize

\* Compressor.appendInput, when it succeeds
appendInput(c, d) == [c EXCEPT !.lastInLen = Len(c.inBuf), !.inBuf = c.inBuf \o d]

\* Write, "reconstruct bit writer cache", up to justBypassed = false
reconstructCache(c) ==
    [WithBw(c, WriteBits([buf |-> SubSeq(c.outBuf, 1, Len(c.outBuf) - 1),
                          cache |-> c.bwCache, bits |-> c.bwBits],
                         lastByteOf(c), 8 - c.nbSkippedBits))
        EXCEPT !.lastOutLen = Len(c.outBuf),
               !.lastNbSkippedBits = c.nbSkippedBits,
               !.justBypassed = FALSE]

\* Write, after write: Align and what Write returns
aligned(c, toks, al) ==
    [c |-> [WithBw(c, al.w) EXCEPT !.nbSkippedBits = al.skipped],
     n |-> Len(c.inBuf) - c.lastInLen, err |-> "", toks |-> toks]

\* Write, the tokens of write handed to the bit writer
emitted(c, toks) == aligned(c, toks, Align(EmitTokens(Bw(c), toks)))

\* Write, after appendInput succeeded
writeAppended(c, d) ==
    IF c.level = NoCompression
    THEN [c |-> writeUncompressed(c, d), n |-> Len(d), err |-> "", toks |-> << >>]
    ELSE emitted(c, write(c.inBuf, c.lastInLen, c.dictData, c.dictReservedIdx, c.order))

\* Write, after the bit writer cache is reconstructed
writeCached(c, d) ==
    IF InputTooLarge(c, d)
    THEN [c |-> c, n |-> 0, err |-> "InputTooLarge", toks |-> << >>]
    ELSE writeAppended(appendInput(c, d), d)

\* Compressor.Write.  The result is [c, n, err, toks]; err is "" (nil),
\* "InputTooLarge" (appendInput) or "panic" (index out of range on an empty
\* output buffer); toks are the tokens write handed to the bit writer.
Write(c, d) ==
    IF Len(c.outBuf) = 0 THEN [c |-> c, n |-> 0, err |-> "panic", toks |-> << >>]
    ELSE writeCached(reconstructCache(c), d)

\* mutant: a Revert that forgets to truncate the input buffer
truncatedInput_whole(c) == c.inBuf
\* Revert: the input buffer truncated to lastInLen
truncatedInput(c) == SubSeq(c.inBuf, 1, c.lastInLen)

\* Revert, the recompress path: what the Write returned
recompressed(w) == [c |-> w.c, err |-> w.err]

\* Revert, c1 being c with the input truncated and lastInLen = -1
revertTo(c, c1) ==
    IF c.justBypassed THEN recompressed(Write(Reset(c1), c1.inBuf))
    ELSE IF c.lastOutLen > Len(c.outBuf) THEN [c |-> c1, err |-> "panic"]
    ELSE [c |-> [c1 EXCEPT !.outBuf = SubSeq(c.outBuf, 1, c.lastOutLen),
                           !.nbSkippedBits = c.lastNbSkippedBits],
          err |-> ""]

\* Compressor.Revert.  err is "", "AlreadyReverted", what the Write of the
\* recompress path returns, or "panic" (Buffer.Truncate beyond the length).
Revert(c) ==
    IF c.lastInLen = -1 THEN [c |-> c, err |-> "AlreadyReverted"]
    ELSE revertTo(c, [c EXCEPT !.inBuf = truncatedInput(c), !.lastInLen = -1])

\* mutant: a ConsiderBypassing that bypasses on equal lengths too
notWorthIt_orEqual(c) == Len(c.outBuf) >= Len(c.inBuf) + HeaderSize
\* ConsiderBypassing: "compression was not worth it"
notWorthIt(c) == Len(c.outBuf) > Len(c.inBuf) + HeaderSize

\* Compressor.ConsiderBypassing
ConsiderBypassing(c) ==
    IF notWorthIt(c)
    THEN [c |-> [c EXCEPT !.level = NoCompression,
                          !.nbSkippedBits = 0,
                          !.lastOutLen = c.lastInLen + HeaderSize,
                          !.lastNbSkippedBits = 0,
                          !.justBypassed = TRUE,
                          !.outBuf = HeaderBytes(TRUE) \o c.inBuf],
          bypassed |-> TRUE]
    ELSE [c |-> c, bypassed |-> FALSE]

\* Compress: what is returned after the Write
compressedAs(w) == [c |-> w.c, out |-> Bytes(w.c), err |-> w.err, toks |-> w.toks]

\* Compressor.Compress
Compress(c, d) == compressedAs(Write(Reset(c), d))

\* ------------------------------------------------------ CompressedSize256k
maxInputSize256k == 3       \* 1 << 18

\* backref.writeTo on a bitCounterWriter holding nbBits
countBackref(nbBits, b) == nbBits + 8 + b.bType.NbBitsLength + b.bType.NbBitsAddress

\* the calls of write on its writer, applied to a bitCounterWriter
RECURSIVE CountTokens(_, _)
CountTokens(nbBits, toks) ==
    IF toks = << >> THEN nbBits
    ELSE CountTokens(IF Head(toks).lit THEN nbBits + 8 ELSE countBackref(nbBits, Head(toks).br),
                     Tail(toks))

\* mutant: a bitCounterWriter.Len that rounds down
bitCounterLen_floor(nbBits) == nbBits \div 8
\* bitCounterWriter.Len
bitCounterLen(nbBits) == (nbBits + 7) \div 8

\* CompressedSize256k up to the size check: the caller has read the level and
\* returns, or goes on to build the index and call write.  `overlap` records
\* for the caller whether another caller was inside when it entered.
sizeEnter(c, d) ==
    IF c.level = NoCompression
    THEN [pc |-> "done", d |-> d, level |-> c.level, size |-> HeaderSize + Len(d), err |-> "",
          overlap |-> FALSE]
    ELSE IF Len(d) > maxInputSize256k
    THEN [pc |-> "done", d |-> d, level |-> c.level, size |-> 0, err |-> "InputTooLarge",
          overlap |-> FALSE]
    ELSE [pc |-> "write", d |-> d, level |-> c.level, size |-> HeaderSize, err |-> "",
          overlap |-> FALSE]

\* CompressedSize256k from the index on: write on a new bitCounterWriter
sizeCounted(s, toks) ==
    [s EXCEPT !.pc = "done", !.size = s.size + bitCounterLen(CountTokens(0, toks))]

\* the tokens write chooses for the caller's d, over the index of d
sizeTokens(c, s) == write(s.d, 0, c.dictData, c.dictReservedIdx, c.order)

\* mutant: write handed the compressor's own bit writer
afterCount_liveWriter(c, toks) == WithBw(c, EmitTokens(Bw(c), toks))
\* the compressor after write has run on the caller's bitCounterWriter:
\* write assigns no field of the compressor and the writer is the caller's
afterCount(c, toks) == c

\* CompressedSize256k, run without interruption; [size, err]
sizeResult(s) == [size |-> s.size, err |-> s.err]

sizeAfterEnter(c, s) ==
    IF s.pc = "done" THEN sizeResult(s) ELSE sizeResult(sizeCounted(s, sizeTokens(c, s)))

CompressedSize256k(c, d) == sizeAfterEnter(c, sizeEnter(c, d))

\* -------------------------------------------------------------- Decompress
\* bitio.Reader over data: bit `pos` (0-based, MSB first) and the value of
\* the n bits from pos
BitAt(data, pos) == (At(data, pos \div 8) \div (2 ^ (7 - (pos % 8)))) % 2

RECURSIVE ReadBits(_, _, _)
ReadBits(data, pos, n) ==
    IF n = 0 THEN 0
    ELSE 2 * ReadBits(data, pos, n - 1) + BitAt(data, pos + n - 1)

\* whether n bits can be read at pos (otherwise TryError is set)
CanRead(data, pos, n) == pos + n <= 8 * Len(data)

\* out.Bytes()[idx] of Go, 0-based: an index out of range panics
OutOfRange == -1
byteAt(out, idx) == IF idx >= 0 /\ idx < Len(out) THEN At(out, idx) ELSE OutOfRange

\* the copy loop of a backref: n times, append out[len(out) - address]
RECURSIVE CopyBack(_, _, _)
CopyBack(out, address, n) ==
    IF n = 0 THEN out
    ELSE CopyBack(Append(out, byteAt(out, Len(out) - address)), address, n - 1)

\* mutant: a range check that is off by one
beyondOutput_offByOne(address, out) == address > Len(out) + 1
\* Decompress: the backref reaches back beyond the output produced so far
beyondOutput(address, out) == address > Len(out)

\* Decompress: the dictionary span of a dynamic backref is not in the dictionary
badDictSpan(dictStart, length, dict) ==
    dictStart < 0 \/ dictStart > Len(dict) \/ dictStart + length > Len(dict)

\* the token loop of Decompress from bit pos; [out, err]
RECURSIVE DecompressLoop(_, _, _, _)

\* case SymbolShort, the backref read
shortBackref(data, dict, next, out, length, address) ==
    IF beyondOutput(address, out) THEN [out |-> << >>, err |-> "InvalidBackref"]
    ELSE DecompressLoop(data, dict, next, CopyBack(out, address, length))

\* case SymbolDynamic, the backref read
dynamicBackref(data, dict, next, out, length, address, dictStart) ==
    IF beyondOutput(address, out)
    THEN IF badDictSpan(dictStart, length, dict)
         THEN [out |-> << >>, err |-> "InvalidBackref"]
         ELSE DecompressLoop(data, dict, next,
                             out \o Slice(dict, dictStart, dictStart + length))
    ELSE DecompressLoop(data, dict, next, CopyBack(out, address, length))

\* backref.readFrom at bit pos + 8, and the case of the switch for bType
readBackref(data, dict, pos, out, bType, length, address) ==
    IF ~CanRead(data, pos + 8, bType.NbBitsLength + bType.NbBitsAddress)
    THEN [out |-> << >>, err |-> "Truncated"]
    ELSE IF bType.Delimiter = SymbolShort
    THEN shortBackref(data, dict, pos + bType.NbBitsBackRef, out, length, address)
    ELSE dynamicBackref(data, dict, pos + bType.NbBitsBackRef, out, length, address,
                        Len(dict) - (address - Len(out)))

\* the switch of Decompress on the byte s read at bit pos
decodeSymbol(data, dict, pos, out, s, bType) ==
    IF s = SymbolShort \/ s = SymbolDynamic
    THEN readBackref(data, dict, pos, out, bType,
                     ReadBits(data, pos + 8, bType.NbBitsLength) + 1,
                     ReadBits(data, pos + 8 + bType.NbBitsLength, bType.NbBitsAddress) + 1)
    ELSE DecompressLoop(data, dict, pos + 8, Append(out, s))

\* the type of the backref the byte s announces
typeOf(s, dict, out) ==
    IF s = SymbolShort THEN NewShortBackrefType
    ELSE NewDynamicBackrefType(Len(dict), Len(out))

readSymbol(data, dict, pos, out, s) ==
    decodeSymbol(data, dict, pos, out, s, typeOf(s, dict, out))

DecompressLoop(data, dict, pos, out) ==
    IF ~CanRead(data, pos, 8) THEN [out |-> out, err |-> ""]
    ELSE readSymbol(data, dict, pos, out, ReadBits(data, pos, 8))

\* what Decompress returns after its loop; a read out of range has panicked
decoded(r) ==
    IF Contains(r.out, OutOfRange) THEN [out |-> << >>, err |-> "panic"] ELSE r

\* Decompress, the header read
decompressBody(data, dict, hd) ==
    IF hd.err # "" THEN [out |-> << >>, err |-> hd.err]
    ELSE IF hd.h.Version # Version THEN [out |-> << >>, err |-> "UnsupportedVersion"]
    ELSE IF hd.h.NoCompression THEN [out |-> Slice(data, hd.n, Len(data)), err |-> ""]
    ELSE decoded(DecompressLoop(data, AugmentDict(dict), 8 * HeaderSize, << >>))

\* Decompress(data, dict); [out, err]
Decompress(data, dict) == decompressBody(data, dict, ReadFrom(data))

\* ------------------------------------------------------------------ Stream
\* A Stream is [D, NbSymbs]: its words and the number of symbols.  FillBytes
\* packs the length of the stream and then its words into elements of nbBits
\* bits, each element aligned to bytes; ReadBytes unpacks them.

\* the width of the length field: the 31 of "(31 + bitsPerWord) / bitsPerWord"
\* is this width minus one
lenFieldBits == 2           \* 32

\* bitLen: the least bitLen with 1 << bitLen >= n
RECURSIVE bitLenFrom(_, _)
bitLenFrom(n, bits) == IF 2 ^ bits < n THEN bitLenFrom(n, bits + 1) ELSE bits

bitLen(n) == bitLenFrom(n, 0)

wordsForNb(bitsPerWord) == ((lenFieldBits - 1) + bitsPerWord) \div bitsPerWord

wordsPerElem(nbBits, bitsPerWord) == (nbBits - 1) \div bitsPerWord

bytesPerElem(nbBits) == (nbBits + 7) \div 8

\* uint8 arithmetic
leftPaddingBitsPerElem(nbBits) == (bytesPerElem(nbBits) * 8 - nbBits + 1) % 256

rightPaddingBitsPerElem(nbBits, bitsPerWord) ==
    (((bytesPerElem(nbBits) * 8 - bitsPerWord * wordsPerElem(nbBits, bitsPerWord)) % 256)
        - leftPaddingBitsPerElem(nbBits)) % 256

StreamSerializedSize(nbWords, wordNbBits, nbBits) ==
    ((wordsForNb(wordNbBits) + nbWords + wordsPerElem(nbBits, wordNbBits) - 1)
        \div wordsPerElem(nbBits, wordNbBits)) * bytesPerElem(nbBits)

\* the parameters FillBytes and ReadBytes derive from NbSymbs and nbBits
Packing(nbSymbs, nbBits) ==
    [NbSymbs      |-> nbSymbs,
     bitsPerWord  |-> bitLen(nbSymbs),
     wordsForNb   |-> wordsForNb(bitLen(nbSymbs)),
     wordsPerElem |-> wordsPerElem(nbBits, bitLen(nbSymbs)),
     left         |-> leftPaddingBitsPerElem(nbBits),
     right        |-> rightPaddingBitsPerElem(nbBits, bitLen(nbSymbs))]

\* mutant: the digits of the length, least significant first
num_leastFirst(x, nbSymbs, n) == [k \in 1..n |-> (x \div (nbSymbs ^ (k - 1))) % nbSymbs]

\* FillBytes, "WriteNum type operation": the n digits of x in base nbSymbs,
\* most significant first
num(x, nbSymbs, n) == [k \in 1..n |-> (x \div (nbSymbs ^ (n - k))) % nbSymbs]

\* what is left of x after n digits: not zero is "writeNum overflow"
numOverflow(x, nbSymbs, n) == x \div (nbSymbs ^ n) # 0

\* dAt: the digits of the length at negative indexes, zero past the end
dAt(s, i, p) ==
    IF i < 0 THEN num(Len(s.D), s.NbSymbs, p.wordsForNb)[i + p.wordsForNb + 1]
    ELSE IF i >= Len(s.D) THEN 0
    ELSE At(s.D, i)

\* the inner loop of FillBytes: the words j.. of element i
RECURSIVE fillWords(_, _, _, _, _)
fillWords(w, s, i, j, p) ==
    IF j >= p.wordsPerElem THEN w
    ELSE fillWords(WriteBits(w, dAt(s, i * p.wordsPerElem + j - p.wordsForNb, p),
                             p.bitsPerWord),
                   s, i, j + 1, p)

\* one element: left padding, words, right padding, TryAlign
fillElem(w, s, i, p) ==
    Align(WriteBits(fillWords(WriteBits(w, 0, p.left), s, i, 0, p), 0, p.right))

\* the outer loop of FillBytes from element i
RECURSIVE fillElems(_, _, _, _, _)
alignedElem(al, s, i, nbElems, p) ==
    IF al.skipped # 0 THEN [w |-> al.w, err |-> "alignment error"]
    ELSE fillElems(al.w, s, i + 1, nbElems, p)

fillElems(w, s, i, nbElems, p) ==
    IF i >= nbElems THEN [w |-> w, err |-> ""]
    ELSE alignedElem(fillElem(w, s, i, p), s, i, nbElems, p)

\* dst after the loop: the bytes written, then on success the rest zeroed
filled(r, dst) ==
    [dst |-> [k \in 1..Len(dst) |->
                 IF k <= Len(r.w.buf) THEN r.w.buf[k]
                 ELSE IF r.err = "" THEN 0 ELSE dst[k]],
     err |-> r.err]

fillChecked(s, dst, nbBits, p) ==
    IF Len(dst) < StreamSerializedSize(Len(s.D), p.bitsPerWord, nbBits)
    THEN [dst |-> dst, err |-> "not enough room in dst"]
    ELSE IF numOverflow(Len(s.D), s.NbSymbs, p.wordsForNb)
    THEN [dst |-> dst, err |-> "writeNum overflow"]
    ELSE filled(fillElems([buf |-> << >>, cache |-> 0, bits |-> 0], s, 0,
                          (Len(s.D) + p.wordsForNb + p.wordsPerElem - 1)
                              \div p.wordsPerElem, p),
                dst)

\* Stream.FillBytes: [dst, err], dst as the call leaves it
FillBytes(s, dst, nbBits) ==
    IF bitLen(s.NbSymbs) >= nbBits
    THEN [dst |-> dst, err |-> "words do not fit in elements"]
    ELSE fillChecked(s, dst, nbBits, Packing(s.NbSymbs, nbBits))

\* The state of ReadBytes is [pos, eof, nbWords, nbElems, num, D]: the bit
\* position of the reader, its TryError, and the locals of the function.

\* Reader.TryReadBits: [v, st]; once TryError is set every read returns 0
TryReadBits(src, st, n) ==
    IF st.eof \/ ~CanRead(src, st.pos, n)
    THEN [v |-> 0, st |-> [st EXCEPT !.eof = TRUE]]
    ELSE [v |-> ReadBits(src, st.pos, n), st |-> [st EXCEPT !.pos = @ + n]]

\* "just finished reading the number of words"
RECURSIVE numValue(_, _, _)
numValue(digits, nbSymbs, k) ==
    IF k = 0 THEN 0 ELSE numValue(digits, nbSymbs, k - 1) * nbSymbs + digits[k]

resized(st, nbWords, p) ==
    [st EXCEPT !.nbWords = nbWords,
               !.D = [k \in 1..nbWords |-> 0],
               !.nbElems = (nbWords + p.wordsForNb + p.wordsPerElem - 1)
                               \div p.wordsPerElem]

lengthWord(st, wordI, p) ==
    IF wordI = -1 THEN resized(st, numValue(st.num, p.NbSymbs, p.wordsForNb), p)
    ELSE st

\* the word read at wordI goes to num or to s.D
storeWord(r, wordI, p) ==
    IF wordI < 0
    THEN lengthWord([r.st EXCEPT !.num[wordI + p.wordsForNb + 1] = r.v], wordI, p)
    ELSE [r.st EXCEPT !.D[wordI + 1] = r.v]

readResult(st, err) == [D |-> st.D, err |-> err]

tryError(st) == IF st.eof THEN "EOF" ELSE ""

RECURSIVE readElems(_, _, _, _)
RECURSIVE readWords(_, _, _, _, _)
afterRight(src, i, r, p) ==
    IF r.v # 0 THEN readResult(r.st, "right padding not zero")
    ELSE readElems(src, i + 1, r.st, p)

readWordAt(src, i, j, st, wordI, p) ==
    IF wordI = st.nbWords THEN readResult(st, tryError(st))
    ELSE readWords(src, i, j + 1,
                   storeWord(TryReadBits(src, st, p.bitsPerWord), wordI, p), p)

\* the inner loop of ReadBytes from word j of element i, then the right padding
readWords(src, i, j, st, p) ==
    IF j < p.wordsPerElem
    THEN readWordAt(src, i, j, st, i * p.wordsPerElem + j - p.wordsForNb, p)
    ELSE IF p.right # 0 THEN afterRight(src, i, TryReadBits(src, st, p.right), p)
    ELSE readElems(src, i + 1, st, p)

afterLeft(src, i, r, p) ==
    IF r.v # 0 THEN readResult(r.st, "left padding not zero")
    ELSE readWords(src, i, 0, r.st, p)

\* the outer loop of ReadBytes from element i
readElems(src, i, st, p) ==
    IF i >= st.nbElems THEN readResult(st, tryError(st))
    ELSE afterLeft(src, i, TryReadBits(src, st, p.left), p)

readChecked(src, p) ==
    IF p.NbSymbs # 2 ^ p.bitsPerWord
    THEN [D |-> << >>, err |-> "only powers of 2 currently supported for NbSymbs"]
    ELSE readElems(src, 0,
                   [pos |-> 0, eof |-> FALSE, nbWords |-> p.wordsForNb,
                    nbElems |-> (p.wordsForNb + p.wordsPerElem - 1) \div p.wordsPerElem,
                    num |-> [k \in 1..p.wordsForNb |-> 0], D |-> << >>],
                   p)

\* Stream.ReadBytes into a new Stream of nbSymbs symbols: [D, err]
ReadBytes(nbSymbs, src, nbBits) ==
    IF bitLen(nbSymbs) >= nbBits
    THEN [D |-> << >>, err |-> "words do not fit in elements"]
    ELSE readChecked(src, Packing(nbSymbs, nbBits))

\* ----------------------------------------------------------------- huffman
\* A node is [symbol, frequency, kids]: kids is << >> for a leaf and
\* << left, right >> otherwise; internal nodes have the symbol -1.
NoSymbol == -1
MaxUint16 == 65535
maxCodeLength == 16

Leaf(symbol, frequency) == [symbol |-> symbol, frequency |-> frequency, kids |-> << >>]

\* PriorityQueue.Less and PriorityQueue.Swap, on 0-based indexes
Less(pq, i, j) == At(pq, i).frequency < At(pq, j).frequency

Swap(pq, i, j) ==
    [k \in 1..Len(pq) |-> IF k = i + 1 THEN pq[j + 1]
                          ELSE IF k = j + 1 THEN pq[i + 1]
                          ELSE pq[k]]

\* container/heap: the parent of j, and the sift loops of Push and Pop
heapParent(j) == IF j = 0 THEN 0 ELSE (j - 1) \div 2

RECURSIVE heapUp(_, _)
heapUp(pq, j) ==
    IF heapParent(j) = j \/ ~Less(pq, j, heapParent(j)) THEN pq
    ELSE heapUp(Swap(pq, heapParent(j), j), heapParent(j))

smallerChild(pq, i, n) ==
    IF 2 * i + 2 < n /\ Less(pq, 2 * i + 2, 2 * i + 1) THEN 2 * i + 2 ELSE 2 * i + 1

RECURSIVE heapDown(_, _, _)
heapDownTo(pq, i, j, n) ==
    IF ~Less(pq, j, i) THEN pq ELSE heapDown(Swap(pq, i, j), j, n)

heapDown(pq, i, n) ==
    IF 2 * i + 1 >= n THEN pq ELSE heapDownTo(pq, i, smallerChild(pq, i, n), n)

\* heap.Push(pq, x)
heapPush(pq, x) == heapUp(Append(pq, x), Len(pq))

\* heap.Pop(pq): [item, pq]
popLast(pq) == [item |-> pq[Len(pq)], pq |-> SubSeq(pq, 1, Len(pq) - 1)]

heapPop(pq) == popLast(heapDown(Swap(pq, 0, Len(pq) - 1), 0, Len(pq) - 1))

\* the leaves pushed for frequencies[symbol..]: a frequency of 0 counts as 1
RECURSIVE pushLeaves(_, _, _)
pushLeaves(pq, frequencies, symbol) ==
    IF symbol >= Len(frequencies) THEN pq
    ELSE pushLeaves(heapPush(pq, Leaf(symbol, IF At(frequencies, symbol) = 0 THEN 1
                                              ELSE At(frequencies, symbol))),
                    frequencies, symbol + 1)

\* "Build the tree by merging the two smallest nodes until one node remains"
RECURSIVE mergeNodes(_)
mergeTwo(left, r) ==
    mergeNodes(heapPush(r.pq, [symbol |-> NoSymbol,
                               frequency |-> left.frequency + r.item.frequency,
                               kids |-> << left, r.item >>]))

mergeLeft(l) == mergeTwo(l.item, heapPop(l.pq))

mergeNodes(pq) == IF Len(pq) > 1 THEN mergeLeft(heapPop(pq)) ELSE pq

\* node.generateCodeLengths: the depth of every leaf
RECURSIVE traverse(_, _)
traverse(node, depth) ==
    IF node.kids = << >> THEN {<< node.symbol, depth >>}
    ELSE traverse(node.kids[1], depth + 1) \cup traverse(node.kids[2], depth + 1)

depthsToLengths(depths, nbSymbols) ==
    [k \in 1..nbSymbols |->
        IF \E e \in depths : e[1] = k - 1
        THEN (CHOOSE e \in depths : e[1] = k - 1)[2] ELSE 0]

generateCodeLengths(node, nbSymbols) == depthsToLengths(traverse(node, 0), nbSymbols)

\* "sort the symbols first by code length, then by the symbol itself"
sortsBefore(codeLengths, a, b) ==
    \/ At(codeLengths, a) < At(codeLengths, b)
    \/ At(codeLengths, a) = At(codeLengths, b) /\ a < b

RECURSIVE sortSymbols(_, _)
sortSymbols(codeLengths, symbols) ==
    IF symbols = {} THEN << >>
    ELSE << CHOOSE a \in symbols : \A b \in symbols \ {a} : sortsBefore(codeLengths, a, b) >>
         \o sortSymbols(codeLengths,
                        symbols \ {CHOOSE a \in symbols :
                                       \A b \in symbols \ {a} : sortsBefore(codeLengths, a, b)})

\* the code after lastCode: ++, then <<= on a uint16
nextCode(lastCode, length) ==
    [encoding |-> (((lastCode.encoding + 1) % (MaxUint16 + 1))
                       * (2 ^ (length - lastCode.length))) % (MaxUint16 + 1),
     length   |-> length % 256]

\* the loop of NewCodeFromCodeLengths over sorted[k..]: [panic, code]
RECURSIVE assignCodes(_, _, _, _, _)
assignCodes(codeLengths, sorted, k, lastCode, code) ==
    IF k > Len(sorted) THEN [panic |-> "", code |-> code]
    ELSE IF At(codeLengths, sorted[k]) > maxCodeLength
    THEN [panic |-> "code length too large", code |-> code]
    ELSE assignCodes(codeLengths, sorted, k + 1,
                     nextCode(lastCode, At(codeLengths, sorted[k])),
                     [code EXCEPT ![sorted[k] + 1] =
                         nextCode(lastCode, At(codeLengths, sorted[k]))])

\* NewCodeFromCodeLengths: code[symbol + 1] is [encoding, length]
NewCodeFromCodeLengths(codeLengths) ==
    assignCodes(codeLengths, sortSymbols(codeLengths, 0..(Len(codeLengths) - 1)), 1,
                [encoding |-> MaxUint16, length |-> 0],
                [k \in 1..Len(codeLengths) |-> [encoding |-> 0, length |-> 0]])

\* NewCodeFromSymbolFrequencies, for at least one frequency, none negative
NewCodeFromSymbolFrequencies(frequencies) ==
    NewCodeFromCodeLengths(
        generateCodeLengths(mergeNodes(pushLeaves(<< >>, frequencies, 0))[1],
                            Len(frequencies)))

\* Encoder.Write on a new bitio.Writer, then Writer.Close: the bytes written
RECURSIVE encodeFrom(_, _, _, _)
encodeFrom(w, code, p, n) ==
    IF n >= Len(p) THEN w
    ELSE encodeFrom(WriteBits(w, code[At(p, n) + 1].encoding, code[At(p, n) + 1].length),
                    code, p, n + 1)

EncoderWrite(code, p) ==
    Align(encodeFrom([buf |-> << >>, cache |-> 0, bits |-> 0], code, p, 0)).w.buf

\* The tree of a Decoder is a function from the paths of its nodes (sequences
\* of bits from the root, 0 for left) to their symbols.
hasKids(tree, path) == Append(path, 0) \in DOMAIN tree

withKids(tree, path) ==
    [q \in DOMAIN tree \cup {Append(path, 0), Append(path, 1)} |->
        IF q \in DOMAIN tree THEN tree[q] ELSE NoSymbol]

curBit(sc, i) == (sc.encoding \div (2 ^ (sc.length - 1 - i))) % 2

\* one turn of the inner loop of NewDecoder: [tree, parent]
descend(tree, parent, sc, i) ==
    IF ~hasKids(tree, parent)
    THEN [tree |-> withKids(tree, parent), parent |-> Append(parent, curBit(sc, i))]
    ELSE [tree |-> tree, parent |-> parent]

RECURSIVE descendFrom(_, _, _)
descendFrom(t, sc, i) ==
    IF i >= sc.length THEN t
    ELSE descendFrom(descend(t.tree, t.parent, sc, i), sc, i + 1)

\* the outer loop of NewDecoder from symbol symb: [panic, tree]
RECURSIVE placeSymbols(_, _, _)
placeSymbol(t, code, symb) ==
    IF hasKids(t.tree, t.parent)
    THEN [panic |-> "bad code - not a prefix code", tree |-> t.tree]
    ELSE IF t.tree[t.parent] # NoSymbol
    THEN [panic |-> "bad code - repeated encoding", tree |-> t.tree]
    ELSE placeSymbols([t.tree EXCEPT ![t.parent] = symb], code, symb + 1)

placeSymbols(tree, code, symb) ==
    IF symb >= Len(code) THEN [panic |-> "", tree |-> tree]
    ELSE placeSymbol(descendFrom([tree |-> tree, parent |-> << >>], code[symb + 1], 0),
                     code, symb)

NewDecoder(code) == placeSymbols([q \in {<< >>} |-> NoSymbol], code, 0)

\* Decoder.Read into p[n..], the reader at bit pos of data: [panic, p, n, err]
RECURSIVE readSymbols(_, _, _, _, _, _)
readSymbols(tree, data, pos, cur, p, n) ==
    IF n >= Len(p) THEN [panic |-> "", p |-> p, n |-> Len(p), err |-> ""]
    ELSE IF cur \notin DOMAIN tree
    THEN [panic |-> "nil pointer dereference", p |-> p, n |-> n, err |-> ""]
    ELSE IF tree[cur] # NoSymbol
    THEN readSymbols(tree, data, pos, << >>, [p EXCEPT ![n + 1] = tree[cur]], n + 1)
    ELSE IF ~CanRead(data, pos, 1)
    THEN [panic |-> "", p |-> p, n |-> n, err |-> "EOF"]
    ELSE readSymbols(tree, data, pos + 1, Append(cur, BitAt(data, pos)), p, n)

DecoderRead(tree, data, length) ==
    readSymbols(tree, data, 0, << >>, [k \in 1..length |-> 0], 0)

\* =================================================================== model
\* bounds of the exploration
MaxDictLen == 1         \* dictionaries of at most this many bytes
MaxPayload == 2         \* Spec: a Write carries at most this many bytes
HistMax == 5            \* operations followed on a new compressor
HistAfterReset == 2     \* operations followed after a Reset
MaxResets == 1          \* Resets followed in one behaviour
MaxChunks == 3          \* SpecFeed: Writes an input is split over

Alphabet == {1, 2, SymbolShort, SymbolDynamic}
SmallAlphabet == {1, SymbolShort}
Orders == {"first", "last"}

RECURSIVE SeqsUpTo(_, _)
SeqsUpTo(S, n) ==
    IF n = 0 THEN {<< >>}
    ELSE LET shorter == SeqsUpTo(S, n - 1)
         IN  shorter \cup {Append(s, x) : s \in {t \in shorter : Len(t) = n - 1}, x \in S}

Dicts == {d \in SeqsUpTo(SmallAlphabet, MaxDictLen) : ~DictTooLarge(d)}
\* the shortest payload that takes the run-length path of write
RunPayloads == {[k \in 1..minRepeatingBytes |-> 1]}
Payloads == SeqsUpTo(SmallAlphabet, MaxPayload) \cup RunPayloads
\* inputs of MaxInputSize ordinary bytes
LongInputs == [1..MaxInputSize -> {1, 2}]
Inputs == SeqsUpTo(Alphabet, MaxInputSize - 1) \cup LongInputs

VARIABLES
    comp,    \* the Compressor
    dict,    \* the dictionary NewCompressor was given
    base,    \* the compressor as the last NewCompressor or Reset left it
    hist,    \* the caller's operations since then: [op, d, ret]
    ckpt,    \* a copy of Bytes() taken before the last Write
    resets,  \* the number of Resets the caller has made
    todo,    \* SpecFeed: the part of the input not yet written
    calls,   \* the calls of the package's functions made so far: [fn, arg, ret]
    stream,  \* SpecDecode: the bytes handed to Decompress
    sizing   \* SpecSize: each caller's CompressedSize256k call

vars == << comp, dict, base, hist, ckpt, resets, todo, calls, stream, sizing >>

\* a caller that is not inside CompressedSize256k
Idle == [pc |-> "idle", d |-> << >>, level |-> NoCompression, size |-> 0, err |-> "",
         overlap |-> FALSE]

\* the callers of CompressedSize256k
Callers == {1, 2}

\* no function has been called and no caller is inside CompressedSize256k
NoCalls ==
    /\ calls = << >>
    /\ stream = << >>
    /\ sizing = [p \in Callers |-> Idle]

\* an entry of hist: the operation, its payload, what it returned (an error,
\* "" for nil, or "true"/"false") and the tokens a Write emitted
Op(op, d, ret, toks) == [op |-> op, d |-> d, ret |-> ret, toks |-> toks]

Panicked == hist # << >> /\ hist[Len(hist)].ret = "panic"
MayCall == Len(hist) < (IF resets = 0 THEN HistMax ELSE HistAfterReset) /\ ~Panicked

InitWith(dicts, input) ==
    /\ dict \in dicts
    /\ \E order \in Orders : comp = NewCompressor(dict, order)
    /\ base = comp
    /\ hist = << >>
    /\ ckpt = comp.outBuf
    /\ resets = 0
    /\ todo = input
    /\ NoCalls

Init == InitWith(Dicts, << >>)

\* the compressor is left as c and the call is added to hist
Returns(c, op, d, ret, toks) ==
    /\ comp' = c
    /\ hist' = Append(hist, Op(op, d, ret, toks))

WriteReturns(d, r) == Returns(r.c, "Write", d, r.err, r.toks)

\* the caller's Write(d)
DoWrite(d) ==
    /\ MayCall
    /\ WriteReturns(d, Write(comp, d))
    /\ ckpt' = comp.outBuf
    /\ UNCHANGED << dict, base, resets, calls, stream, sizing >>

RevertReturns(r) == Returns(r.c, "Revert", << >>, r.err, << >>)

\* the caller's Revert()
DoRevert ==
    /\ MayCall
    /\ RevertReturns(Revert(comp))
    /\ UNCHANGED << dict, base, ckpt, resets, todo, calls, stream, sizing >>

ConsiderBypassingReturns(r) ==
    Returns(r.c, "ConsiderBypassing", << >>, IF r.bypassed THEN "true" ELSE "false", << >>)

\* the caller's ConsiderBypassing()
DoConsiderBypassing ==
    /\ MayCall
    /\ ConsiderBypassingReturns(ConsiderBypassing(comp))
    /\ UNCHANGED << dict, base, ckpt, resets, todo, calls, stream, sizing >>

\* the caller's Reset()
DoReset ==
    /\ hist # << >>
    /\ ~Panicked
    /\ resets < MaxResets
    /\ resets' = resets + 1
    /\ comp' = Reset(comp)
    /\ base' = comp'
    /\ hist' = << >>
    /\ ckpt' = comp'.outBuf
    /\ UNCHANGED << dict, todo, calls, stream, sizing >>

WriteAny == \E d \in Payloads : DoWrite(d) /\ UNCHANGED todo

Next == WriteAny \/ DoRevert \/ DoConsiderBypassing \/ DoReset

Spec == Init /\ [][Next]_vars

\* SpecFeed: a compressor is built and one input is written chunk by chunk
\* a dictionary that, once augmented, is one byte longer than a dynamic
\* address reaches, and holds the bytes 1, 2 at its start only
LongDict == [k \in 1..(2 ^ dynAddrBits - 1) |-> IF k = 2 THEN 2 ELSE 1]
FeedDicts == Dicts \cup {LongDict}

InitFeed == \E input \in Inputs : InitWith(FeedDicts, input)

WriteChunk ==
    \E k \in 0..Len(todo) :
        /\ Len(hist) < MaxChunks
        /\ DoWrite(SubSeq(todo, 1, k))
        /\ todo' = SubSeq(todo, k + 1, Len(todo))

CompressReturns(d, r) ==
    /\ comp' = r.c
    /\ hist' = << Op("Compress", d, r.err, r.toks) >>

\* the caller's Compress(todo), on the compressor just built
DoCompress ==
    /\ hist = << >>
    /\ CompressReturns(todo, Compress(comp, todo))
    /\ ckpt' = HeaderBytes(FALSE)
    /\ todo' = << >>
    /\ UNCHANGED << dict, base, resets, calls, stream, sizing >>

NextFeed == WriteChunk \/ DoCompress

SpecFeed == InitFeed /\ [][NextFeed]_vars

\* a call of a function of the package: its name, argument and result
Call(fn, arg, ret) == [fn |-> fn, arg |-> arg, ret |-> ret]

\* no compressor has been built
Nil == "nil"

\* SpecDict: a caller's dictionary is augmented and a compressor built on it
MaxDictCalls == 3       \* calls followed on one dictionary
DictAlphabet == {1, SymbolShort, SymbolDynamic}
AllDicts == SeqsUpTo(DictAlphabet, MaxDictSize + 1)

InitDict ==
    /\ dict \in AllDicts
    /\ comp = Nil
    /\ base = Nil
    /\ hist = << >>
    /\ ckpt = << >>
    /\ resets = 0
    /\ todo = << >>
    /\ NoCalls

\* the caller's dict = AugmentDict(dict)
DoAugmentDict ==
    /\ Len(calls) < MaxDictCalls
    /\ calls' = Append(calls, Call("AugmentDict", dict, AugmentDict(dict)))
    /\ dict' = AugmentDict(dict)
    /\ UNCHANGED << comp, base, hist, ckpt, resets, todo, stream, sizing >>

\* NewCompressor: the error, or the compressor built
newCompressorResult(d, order) ==
    IF DictTooLarge(d) THEN [c |-> Nil, err |-> "DictTooLarge"]
    ELSE [c |-> NewCompressor(d, order), err |-> ""]

NewCompressorReturns(r) ==
    /\ comp' = r.c
    /\ base' = r.c
    /\ calls' = Append(calls, Call("NewCompressor", dict, r.err))

\* the caller's NewCompressor(dict)
DoNewCompressor ==
    /\ Len(calls) < MaxDictCalls
    /\ \E order \in Orders : NewCompressorReturns(newCompressorResult(dict, order))
    /\ UNCHANGED << dict, hist, ckpt, resets, todo, stream, sizing >>

NextDict == DoAugmentDict \/ DoNewCompressor

SpecDict == InitDict /\ [][NextDict]_vars

\* SpecSize: callers estimate sizes on a compressor that is written to and
\* bypassed between their calls; CompressedSize256k runs in two steps, other
\* callers' steps in between
SizeHist == 2           \* operations on the compressor in one behaviour
SizePayloads == SeqsUpTo(SmallAlphabet, 1)
SizeInputs == SeqsUpTo(SmallAlphabet, maxInputSize256k)
                  \cup {[k \in 1..(maxInputSize256k + 1) |-> 1]}

\* no caller is inside CompressedSize256k (the other methods are not
\* thread-safe: they run only then)
NoneSizing == \A p \in Callers : sizing[p].pc # "write"

SizeWrite ==
    \E d \in SizePayloads :
        /\ NoneSizing
        /\ Len(hist) < SizeHist
        /\ DoWrite(d)
        /\ UNCHANGED todo

SizeConsiderBypassing ==
    /\ NoneSizing
    /\ Len(hist) < SizeHist
    /\ DoConsiderBypassing

\* caller p enters CompressedSize256k(d)
EnterSize(p) ==
    \E d \in SizeInputs :
        /\ sizing[p].pc = "idle"
        /\ sizing' = [sizing EXCEPT ![p] = [sizeEnter(comp, d) EXCEPT !.overlap = ~NoneSizing]]
        /\ UNCHANGED << comp, dict, base, hist, ckpt, resets, todo, calls, stream >>

CountReturns(p, toks) ==
    /\ sizing' = [sizing EXCEPT ![p] = sizeCounted(sizing[p], toks)]
    /\ comp' = afterCount(comp, toks)

\* caller p builds the index of d, runs write and returns
CountSize(p) ==
    /\ sizing[p].pc = "write"
    /\ CountReturns(p, sizeTokens(comp, sizing[p]))
    /\ UNCHANGED << dict, base, hist, ckpt, resets, todo, calls, stream >>

NextSize ==
    \/ SizeWrite
    \/ SizeConsiderBypassing
    \/ \E p \in Callers : EnterSize(p)
    \/ \E p \in Callers : CountSize(p)

SpecSize == Init /\ [][NextSize]_vars

\* SpecDecode: Decompress is handed a stream and a dictionary; a header is
\* written and read back
MaxStream == 4          \* bytes after the header of a compressed stream
MaxRaw == 2             \* bytes after any other header

\* literals, the two delimiters, and bytes whose leading bits give the
\* length and address fields their smallest, middle and largest values
StreamAlphabet == {1, SymbolShort, SymbolDynamic, 32, 80, 240}
OtherHeaders == {<< 0, 1, 1 >>, << 0, 1, 2 >>, << 0, 2, 0 >>, << 0, 2, 1 >>,
                 << 1, 1, 0 >>, << 0, 0, 1 >>}
Streams ==
    {HeaderBytes(FALSE) \o p : p \in SeqsUpTo(StreamAlphabet, MaxStream)}
        \cup {h \o p : h \in OtherHeaders, p \in SeqsUpTo(SmallAlphabet, MaxRaw)}
        \cup {SubSeq(HeaderBytes(FALSE), 1, k) : k \in 0..(HeaderSize - 1)}
Headers == [Version : {0, 1, 2, 255, 256, 65535}, NoCompression : BOOLEAN]

InitDecode ==
    /\ dict \in Dicts
    /\ stream \in Streams
    /\ comp = Nil
    /\ base = Nil
    /\ hist = << >>
    /\ ckpt = << >>
    /\ resets = 0
    /\ todo = << >>
    /\ calls = << >>
    /\ sizing = [p \in Callers |-> Idle]

\* the caller's Decompress(stream, dict)
DoDecompress ==
    /\ calls = << >>
    /\ calls' = << Call("Decompress", stream, Decompress(stream, dict)) >>
    /\ UNCHANGED << comp, dict, base, hist, ckpt, resets, todo, stream, sizing >>

\* h.WriteTo(buf) and h2.ReadFrom(buf)
DoHeader ==
    \E h \in Headers :
        /\ calls = << >>
        /\ calls' = << Call("Header", h, ReadFrom(WriteTo(h))) >>
        /\ UNCHANGED << comp, dict, base, hist, ckpt, resets, todo, stream, sizing >>

NextDecode == DoDecompress \/ DoHeader

SpecDecode == InitDecode /\ [][NextDecode]_vars

\* ---- SpecStream: one FillBytes into a buffer, then ReadBytes from it
\* `todo` is s.D, `base` is [NbSymbs, nbBits] and `stream` is dst, all zeros
\* or all ones before the call
MaxWords == 4           \* words of a stream
MaxNbBits == 9          \* bits of an element
SlackBytes == 1         \* bytes dst is shorter or longer than the serialized size
StreamSymbs == {2, 4}

Dsts(size) ==
    {[k \in 1..n |-> f] : n \in (size - SlackBytes)..(size + SlackBytes),
                          f \in {0, 255}}

InitStream ==
    /\ \E n \in StreamSymbs, k \in 2..MaxNbBits :
          /\ k > bitLen(n)
          /\ todo \in SeqsUpTo(0..(n - 1), MaxWords)
          /\ base = [NbSymbs |-> n, nbBits |-> k]
          /\ stream \in Dsts(StreamSerializedSize(Len(todo), bitLen(n), k))
    /\ dict = << >>
    /\ comp = Nil
    /\ hist = << >>
    /\ ckpt = << >>
    /\ resets = 0
    /\ calls = << >>
    /\ sizing = [p \in Callers |-> Idle]

FillBytesReturns(r) ==
    /\ calls' = << Call("FillBytes", [dst |-> stream], r.err) >>
    /\ stream' = r.dst

\* s.FillBytes(dst, nbBits)
DoFillBytes ==
    /\ calls = << >>
    /\ FillBytesReturns(FillBytes([D |-> todo, NbSymbs |-> base.NbSymbs], stream,
                                  base.nbBits))
    /\ UNCHANGED << comp, dict, base, hist, ckpt, resets, todo, sizing >>

\* sBack.ReadBytes(dst, nbBits), sBack a new Stream of the same NbSymbs
DoReadBytes ==
    /\ Len(calls) = 1
    /\ calls' = Append(calls, Call("ReadBytes", stream,
                                   ReadBytes(base.NbSymbs, stream, base.nbBits)))
    /\ UNCHANGED << comp, dict, base, hist, ckpt, resets, todo, stream, sizing >>

NextStream == DoFillBytes \/ DoReadBytes

SpecStream == InitStream /\ [][NextStream]_vars

\* ---- SpecHuffman: a code from frequencies, a text written with an Encoder,
\* ---- a Decoder from the same code, the text read back
\* `base` is the frequencies, `todo` the text, `stream` the bytes written
MaxSymbols == 3         \* symbols of a code
MaxFrequency == 3       \* frequency of a symbol
MaxText == 3            \* symbols of a text

Frequencies == UNION {[1..n -> 0..MaxFrequency] : n \in 1..MaxSymbols}

InitHuffman ==
    /\ base \in Frequencies
    /\ todo \in SeqsUpTo(0..(Len(base) - 1), MaxText)
    /\ stream = << >>
    /\ dict = << >>
    /\ comp = Nil
    /\ hist = << >>
    /\ ckpt = << >>
    /\ resets = 0
    /\ calls = << >>
    /\ sizing = [p \in Callers |-> Idle]

\* code := NewCodeFromSymbolFrequencies(frequencies)
DoNewCode ==
    /\ calls = << >>
    /\ calls' = << Call("NewCodeFromSymbolFrequencies", base,
                        NewCodeFromSymbolFrequencies(base)) >>
    /\ UNCHANGED << comp, dict, base, hist, ckpt, resets, todo, stream, sizing >>

\* NewEncoder(code, writer).Write(text); writer.Close()
DoEncode ==
    /\ Len(calls) = 1
    /\ calls[1].ret.panic = ""
    /\ stream' = EncoderWrite(calls[1].ret.code, todo)
    /\ calls' = Append(calls, Call("Write", todo, [panic |-> "", n |-> Len(todo)]))
    /\ UNCHANGED << comp, dict, base, hist, ckpt, resets, todo, sizing >>

\* dec := NewDecoder(code, reader)
DoNewDecoder ==
    /\ Len(calls) = 2
    /\ calls' = Append(calls, Call("NewDecoder", calls[1].ret.code,
                                   NewDecoder(calls[1].ret.code)))
    /\ UNCHANGED << comp, dict, base, hist, ckpt, resets, todo, stream, sizing >>

\* dec.Read(textBack), textBack of len(text) symbols
DoRead ==
    /\ Len(calls) = 3
    /\ calls[3].ret.panic = ""
    /\ calls' = Append(calls, Call("Read", Len(todo),
                                   DecoderRead(calls[3].ret.tree, stream, Len(todo))))
    /\ UNCHANGED << comp, dict, base, hist, ckpt, resets, todo, stream, sizing >>

NextHuffman == DoNewCode \/ DoEncode \/ DoNewDecoder \/ DoRead

SpecHuffman == InitHuffman /\ [][NextHuffman]_vars

\* ================================================================== claims
Last(h) == h[Len(h)]
IsOkWrite(e) == e.op = "Write" /\ e.ret = ""
IsOkRevert(e) == e.op = "Revert" /\ e.ret = ""
IsBypass(e) == e.op = "ConsiderBypassing"

\* the concatenation of the payloads of the entries of h
RECURSIVE ConcatPayloads(_)
ConcatPayloads(h) == IF h = << >> THEN << >> ELSE Head(h).d \o ConcatPayloads(Tail(h))

\* the epoch began with the compressor as NewCompressor builds it
Fresh == base = NewCompressor(dict, comp.order)

\* C1: round trip. Compress(X) on a compressor built from D succeeds and
\* Decompress(Compress(X), D) returns exactly X, for every X of at most
\* MaxInputSize bytes.
C1_RoundTrip ==
    (hist # << >> /\ hist[1].op = "Compress")
        => /\ hist[1].ret = ""
           /\ Decompress(Bytes(comp), dict) = [out |-> hist[1].d, err |-> ""]

\* C2: incremental equivalence. Writing an input chunk by chunk on a new
\* compressor succeeds each time, and after every Write the output
\* decompresses to the chunks written so far.
C2_IncrementalEquivalence ==
    (hist # << >> /\ \A k \in 1..Len(hist) : hist[k].op = "Write")
        => /\ \A k \in 1..Len(hist) : hist[k].ret = ""
           /\ Decompress(Bytes(comp), dict) = [out |-> ConcatPayloads(hist), err |-> ""]

\* the successful Writes among the entries of h, in order
OkWrites(h) == SelectSeq(h, IsOkWrite)

\* all but the last element of a non-empty sequence
Front(h) == SubSeq(h, 1, Len(h) - 1)

\* C3: Revert restores the output exactly. After Reset; Write(X1);
\* checkpoint := copy of Bytes(); Write(X2); Revert, Bytes() equals the
\* checkpoint byte for byte.
C3_RevertRestoresBytes ==
    (Len(hist) = 3 /\ IsOkWrite(hist[1]) /\ IsOkWrite(hist[2]) /\ hist[3].op = "Revert")
        => hist[3].ret = "" /\ Bytes(comp) = ckpt

\* C4: Revert undoes exactly the last Write. After successful Writes, with
\* ConsiderBypassing possibly called after any of them, and then one Revert,
\* Written() is the length of all payloads but the last and Bytes()
\* decompresses to all payloads but the last.
C4_RevertUndoesLastWrite ==
    (/\ Len(hist) >= 2
     /\ IsOkWrite(hist[1])
     /\ \A k \in 2..(Len(hist) - 1) : IsOkWrite(hist[k]) \/ IsBypass(hist[k])
     /\ Last(hist).op = "Revert")
        => LET kept == ConcatPayloads(Front(OkWrites(hist)))
           IN  /\ Last(hist).ret = ""
               /\ Written(comp) = Len(kept)
               /\ Decompress(Bytes(comp), dict) = [out |-> kept, err |-> ""]

\* no Write of this epoch has failed
NoFailedWrite == \A k \in 1..Len(hist) : hist[k].op = "Write" => hist[k].ret = ""

\* the epoch started from a compressor as NewCompressor builds it, and every
\* Write so far was accepted
Clean == Fresh /\ NoFailedWrite

\* C5: a reverted Write leaves no trace in later output. Without bypass,
\* Write(X1); Write(X2); Revert; Write(X3) yields the same Bytes() as
\* Write(X1); Write(X3) on a compressor with the same dictionary.
C5_RevertedWriteLeavesNoTrace ==
    (/\ Fresh
     /\ Len(hist) = 4
     /\ IsOkWrite(hist[1]) /\ IsOkWrite(hist[2])
     /\ IsOkRevert(hist[3]) /\ IsOkWrite(hist[4]))
        => LET fresh == NewCompressor(dict, comp.order)
               w1 == Write(fresh, hist[1].d)
               w3 == Write(w1.c, hist[4].d)
           IN  w1.err = "" /\ w3.err = "" /\ Bytes(comp) = Bytes(w3.c)

\* C5 witness: X2 was written into the padding of X1's last byte, reverted,
\* and a non-empty X3 was written in its place
C5_Witness ==
    /\ Fresh
    /\ Len(hist) = 4
    /\ IsOkWrite(hist[1]) /\ IsOkWrite(hist[2])
    /\ IsOkRevert(hist[3]) /\ IsOkWrite(hist[4])
    /\ hist[2].d # << >> /\ hist[4].d # << >> /\ hist[2].d # hist[4].d
    /\ comp.lastNbSkippedBits > 0

\* the step is the caller's operation op
Calls(op) == Len(hist') = Len(hist) + 1 /\ Last(hist').op = op

\* C6: a second Revert, with no Write or Reset in between, returns
\* AlreadyReverted and leaves the state unchanged, whether the first Revert
\* took the normal path or the bypass-recovery path.
C6_SecondRevertRejected ==
    [][(hist # << >> /\ IsOkRevert(Last(hist)) /\ Calls("Revert"))
          => /\ Last(hist').ret = "AlreadyReverted"
             /\ Bytes(comp') = Bytes(comp)
             /\ Written(comp') = Written(comp)]_vars

\* C7: ConsiderBypassing returns true iff Len() > Written() + 3. On true,
\* Bytes() becomes the 3-byte header carrying the bypass flag followed by
\* the accumulated input; on false nothing changes.
C7_ConsiderBypassing ==
    [][Calls("ConsiderBypassing")
          => /\ (Last(hist').ret = "true") <=> (OutLen(comp) > Written(comp) + 3)
             /\ Last(hist').ret \in {"true", "false"}
             /\ Last(hist').ret = "true"
                   => /\ Bytes(comp') = << 0, 1, 1 >> \o comp.inBuf
                      /\ comp'.inBuf = comp.inBuf
             /\ Last(hist').ret = "false" => comp' = comp]_vars

\* C7 witness: ConsiderBypassing has just returned true on a non-empty input
C7_Witness ==
    /\ hist # << >>
    /\ Last(hist).op = "ConsiderBypassing" /\ Last(hist).ret = "true"
    /\ Written(comp) > 0
    /\ Bytes(comp) = << 0, 1, 1 >> \o comp.inBuf

\* hist[k] is a Revert of a successful Write made after position j
RevertsWriteAfter(j, k) ==
    /\ IsOkRevert(hist[k])
    /\ \E m \in (j + 1)..(k - 1) :
          IsOkWrite(hist[m]) /\ \A q \in (m + 1)..(k - 1) : IsBypass(hist[q])

\* ConsiderBypassing returned true at position j and was followed only by
\* successful Writes, Reverts of such Writes and ConsiderBypassing calls
BypassedAt(j) ==
    /\ IsBypass(hist[j]) /\ hist[j].ret = "true"
    /\ \A k \in (j + 1)..Len(hist) :
          IsOkWrite(hist[k]) \/ IsBypass(hist[k]) \/ RevertsWriteAfter(j, k)

\* the payloads the caller's successful Writes have left in place, a
\* successful Revert taking back the latest of them
RECURSIVE KeptPayloads(_)
KeptPayloads(h) ==
    IF h = << >> THEN << >>
    ELSE LET before == KeptPayloads(Front(h))
             e == Last(h)
         IN  IF IsOkWrite(e) THEN Append(before, [d |-> e.d])
             ELSE IF IsOkRevert(e) /\ before # << >> THEN Front(before)
             ELSE before

\* C8: bypass mode persists. Once ConsiderBypassing has returned true, and
\* until Reset or a Revert that undoes the bypass, Writes append raw bytes,
\* Len() = 3 + Written(), Bytes() is header plus accumulated input, and
\* ConsiderBypassing returns false.
C8_BypassPersists ==
    \A j \in 1..Len(hist) :
        BypassedAt(j)
            => /\ comp.level = NoCompression
               /\ OutLen(comp) = 3 + Written(comp)
               /\ Bytes(comp) = << 0, 1, 1 >> \o comp.inBuf
               /\ \A k \in (j + 1)..Len(hist) : IsBypass(hist[k]) => hist[k].ret = "false"
               /\ (\A k \in 1..(j - 1) : IsOkWrite(hist[k]) \/ IsBypass(hist[k]))
                     => comp.inBuf = ConcatPayloads(KeptPayloads(hist))

\* C8 on clean epochs: the same statement where the epoch started from a new
\* compressor and no Write was rejected before
C8_OnCleanEpochs == Clean => C8_BypassPersists

\* C9: Revert directly after a bypass recompresses. After successful Writes
\* X1..Xk, ConsiderBypassing returning true, and Revert, the compressor is
\* in the configured compression level, Written() is the length of
\* X1..X(k-1), and Bytes() is a fresh compression of X1..X(k-1).
C9_RevertAfterBypassRecompresses ==
    (/\ Fresh
     /\ Len(hist) >= 3
     /\ \A k \in 1..(Len(hist) - 2) : IsOkWrite(hist[k])
     /\ IsBypass(hist[Len(hist) - 1]) /\ hist[Len(hist) - 1].ret = "true"
     /\ Last(hist).op = "Revert")
        => LET kept == ConcatPayloads(SubSeq(hist, 1, Len(hist) - 3))
               fresh == Compress(NewCompressor(dict, comp.order), kept)
           IN  /\ Last(hist).ret = ""
               /\ comp.level = BestCompression
               /\ Written(comp) = Len(kept)
               /\ comp.inBuf = kept
               /\ fresh.err = ""
               /\ Bytes(comp) = fresh.out

\* C9 witness: two non-empty Writes, a bypass, and the Revert that leaves
\* the first Write compressed
C9_Witness ==
    /\ Fresh
    /\ Len(hist) = 4
    /\ IsOkWrite(hist[1]) /\ hist[1].d # << >>
    /\ IsOkWrite(hist[2]) /\ hist[2].d # << >>
    /\ IsBypass(hist[3]) /\ hist[3].ret = "true"
    /\ IsOkRevert(hist[4])
    /\ comp.level = BestCompression
    /\ comp.inBuf = hist[1].d

\* C10: reserved bytes are always encodable and never literal. For every
\* input and chunking, a byte 0xFE or 0xFF at position i is covered by a
\* back-reference of length >= 1, no literal token carries 0xFE or 0xFF,
\* and the Write succeeds.
C10_ReservedNeverLiteral ==
    hist # << >>
        => LET e == Last(hist)
               from == Len(comp.inBuf) - Len(e.d)
           IN  /\ e.ret = ""
               /\ \A n \in 1..Len(e.toks) :
                     e.toks[n].lit => e.toks[n].b \notin {254, 255}
               /\ \A i \in from..(Len(comp.inBuf) - 1) :
                     At(comp.inBuf, i) \in {254, 255}
                        => \E n \in 1..Len(e.toks) :
                              /\ ~e.toks[n].lit
                              /\ e.toks[n].br.length >= 1
                              /\ e.toks[n].at <= i
                              /\ i < e.toks[n].at + e.toks[n].br.length

\* C10 witness: a chunk written after earlier input holds both reserved
\* bytes next to an ordinary byte, which went out as a literal
C10_Witness ==
    /\ Len(hist) >= 2
    /\ Last(hist).op = "Write" /\ Last(hist).ret = ""
    /\ Contains(Last(hist).d, 254) /\ Contains(Last(hist).d, 255)
    /\ \E n \in 1..Len(Last(hist).toks) : Last(hist).toks[n].lit
    /\ \E n \in 1..Len(Last(hist).toks) : ~Last(hist).toks[n].lit

\* C14: dictionary augmentation appends only what is missing. AugmentDict(D)
\* is D when D holds both 0xFE and 0xFF, D followed by 0xFF alone when D
\* holds 0xFE but not 0xFF, D followed by 0xFE alone when D holds 0xFF but
\* not 0xFE, and D followed by both when D holds neither.
C14_AppendsOnlyMissing ==
    \A k \in 1..Len(calls) :
        calls[k].fn = "AugmentDict"
            => LET D == calls[k].arg
                   hasShort == \E i \in 1..Len(D) : D[i] = 254
                   hasDynamic == \E i \in 1..Len(D) : D[i] = 255
               IN  calls[k].ret = D \o (IF hasShort THEN << >> ELSE << 254 >>)
                                    \o (IF hasDynamic THEN << >> ELSE << 255 >>)

\* C15: dictionary augmentation is idempotent. For every byte sequence D,
\* AugmentDict(AugmentDict(D)) = AugmentDict(D), and the result always
\* holds both 0xFE and 0xFF.
C15_AugmentIdempotent ==
    \A k \in 1..Len(calls) :
        calls[k].fn = "AugmentDict"
            => /\ \E i \in 1..Len(calls[k].ret) : calls[k].ret[i] = 254
               /\ \E i \in 1..Len(calls[k].ret) : calls[k].ret[i] = 255
               /\ (k > 1 /\ calls[k - 1].fn = "AugmentDict"
                         /\ calls[k].arg = calls[k - 1].ret)
                     => calls[k].ret = calls[k - 1].ret

\* C15 witness: a dictionary lacking a reserved byte was augmented, and the
\* result was augmented again
C15_Witness ==
    /\ Len(calls) >= 2
    /\ calls[1].fn = "AugmentDict" /\ calls[2].fn = "AugmentDict"
    /\ calls[1].arg # << >>
    /\ calls[1].ret # calls[1].arg
    /\ calls[2].arg = calls[1].ret
    /\ calls[2].ret = calls[1].ret

\* C16: NewCompressor(dict) returns DictTooLarge exactly when
\* len(dict) > MaxDictSize: every dictionary of at most MaxDictSize bytes is
\* accepted, whether or not it holds 0xFE and 0xFF.
C16_DictTooLargeExactly ==
    \A k \in 1..Len(calls) :
        calls[k].fn = "NewCompressor"
            => (calls[k].ret = "DictTooLarge" <=> Len(calls[k].arg) > MaxDictSize)

\* C17: a Write rejected with InputTooLarge leaves the instance unchanged
\* and usable. Bytes(), Len(), Written(), nbSkippedBits, the bit writer's
\* pending bits and the revert checkpoint are as before the call, so that
\* later calls behave as if the rejected call had not been made.
C17_RejectedWriteChangesNothing ==
    [][(Calls("Write") /\ Last(hist').ret = "InputTooLarge")
          => /\ Bytes(comp') = Bytes(comp)
             /\ OutLen(comp') = OutLen(comp)
             /\ Written(comp') = Written(comp)
             /\ comp'.nbSkippedBits = comp.nbSkippedBits
             /\ comp'.bwBits = comp.bwBits /\ comp'.bwCache = comp.bwCache
             /\ comp'.lastOutLen = comp.lastOutLen
             /\ comp'.lastNbSkippedBits = comp.lastNbSkippedBits
             /\ comp'.lastInLen = comp.lastInLen
             /\ comp'.justBypassed = comp.justBypassed]_vars

\* C18: Reset is a universal recovery. From every reachable state Reset
\* leaves Bytes() equal to the 3-byte compressed-mode header, Written() = 0,
\* no pending bits in the bit writer and a cleared checkpoint, the
\* compressor being as a newly constructed one with the same dictionary.
C18_ResetRecovers ==
    (resets > 0 /\ hist = << >>)
        => /\ Bytes(comp) = << 0, 1, 0 >>
           /\ Written(comp) = 0
           /\ comp.bwBits = 0
           /\ comp.lastInLen = 0 /\ comp.lastOutLen = 3
           /\ comp.lastNbSkippedBits = 0 /\ comp.nbSkippedBits = 0
           /\ comp = NewCompressor(dict, comp.order)

\* a caller's CompressedSize256k call has returned
Sized(p) == sizing[p].pc = "done"

\* C11: the size estimate is exact. For every input X of at most 2^18 bytes
\* and a compressor in compression mode, CompressedSize256k(X) returns no
\* error and the length of Compress(X) on a new compressor with the same
\* dictionary, header included, the last partial byte rounded up.
C11_SizeEstimateExact ==
    \A p \in Callers :
        (Sized(p) /\ sizing[p].level # NoCompression /\ Len(sizing[p].d) <= maxInputSize256k)
            => LET fresh == Compress(NewCompressor(dict, comp.order), sizing[p].d)
               IN  /\ sizing[p].err = ""
                   /\ fresh.err = ""
                   /\ sizing[p].size = Len(fresh.out)

\* C11 witness: on a compressor already written to, a size was returned for
\* an input with a back-reference whose last byte is partly filled
C11_Witness ==
    \E p \in Callers :
        /\ Sized(p) /\ sizing[p].level # NoCompression /\ sizing[p].err = ""
        /\ Written(comp) > 0
        /\ Len(sizing[p].d) = maxInputSize256k
        /\ Contains(sizing[p].d, 254)
        /\ sizing[p].size < HeaderSize + Len(sizing[p].d) + 2
        /\ Compress(NewCompressor(dict, comp.order), sizing[p].d).c.nbSkippedBits > 0

\* C12: CompressedSize256k rejects oversized input. For every input longer
\* than 2^18 bytes it returns the InputTooLarge error, in every compressor
\* state, compression mode or bypassed.
C12_OversizedRejected ==
    \A p \in Callers :
        (Sized(p) /\ Len(sizing[p].d) > maxInputSize256k)
            => sizing[p].err = "InputTooLarge"

FieldLength(data, pos) == ReadBits(data, pos + 8, maxBackrefLenLog2) + 1
FieldDistance(data, pos, addrBits) ==
    ReadBits(data, pos + 8 + maxBackrefLenLog2, addrBits) + 1

\* reading the tokens of data from bit pos with `produced` bytes produced so
\* far, a SHORT token reaches back more than produced bytes, or a DYNAMIC
\* token more than produced + dictLen bytes, or a DYNAMIC token's dictionary
\* span goes past dictLen
RECURSIVE HasInvalidBackref(_, _, _, _)
HasInvalidBackref(data, dictLen, pos, produced) ==
    IF pos + 8 > 8 * Len(data) THEN FALSE
    ELSE LET s == ReadBits(data, pos, 8)
             addrBits == IF s = 254 THEN shortAddrBits ELSE dynAddrBits
             width == 8 + maxBackrefLenLog2 + addrBits
             len == FieldLength(data, pos)
             dist == FieldDistance(data, pos, addrBits)
         IN  IF s \notin {254, 255}
             THEN HasInvalidBackref(data, dictLen, pos + 8, produced + 1)
             ELSE IF pos + width > 8 * Len(data) THEN FALSE
             ELSE IF s = 254 /\ dist > produced THEN TRUE
             ELSE IF s = 255 /\ dist > produced + dictLen THEN TRUE
             ELSE IF s = 255 /\ dist > produced /\ (dictLen - (dist - produced)) + len > dictLen
             THEN TRUE
             ELSE HasInvalidBackref(data, dictLen, pos + width, produced + len)

\* the stream handed to Decompress has the header of a compressed stream
CompressedStream == Len(stream) >= 3 /\ SubSeq(stream, 1, 3) = << 0, 1, 0 >>

\* the length of the augmented dictionary
AugmentedLen == Len(dict) + (IF Contains(dict, 254) /\ Contains(dict, 255) THEN 0 ELSE 2)

AddressField(t) == (t.at + t.br.bType.DictLen) - t.br.address - 1

\* the width in bits of a token's address field
AddressBits(t) == IF t.b = SymbolShort THEN shortAddrBits ELSE dynAddrBits

\* C25: address fields never overflow. For every token the compressor
\* emits, at any input position below MaxInputSize and with any dictionary,
\* (i + dict_len) - ref_offset - 1 is >= 0 and below 2^(address bits) of
\* the token's type, references into the dictionary included, so no address
\* bit is lost when the field is written.
C25_AddressFieldsFit ==
    \A k \in 1..Len(hist) : \A n \in 1..Len(hist[k].toks) :
        ~hist[k].toks[n].lit
            => /\ AddressField(hist[k].toks[n]) >= 0
               /\ AddressField(hist[k].toks[n]) < 2 ^ AddressBits(hist[k].toks[n])

\* the number of bits a token takes in the output
TokBits(t) == IF t.lit THEN 8 ELSE t.br.bType.NbBitsBackRef

RECURSIVE SeqBits(_)
SeqBits(toks) == IF toks = << >> THEN 0 ELSE TokBits(Head(toks)) + SeqBits(Tail(toks))

\* the number of bits of all the tokens the Writes of h emitted
RECURSIVE EmittedBits(_)
EmittedBits(h) == IF h = << >> THEN 0 ELSE SeqBits(Head(h).toks) + EmittedBits(Tail(h))

\* C23: alignment invariant. After every completed Write, Reset, Revert or
\* ConsiderBypassing, whether it succeeded or returned an error, the bit
\* writer holds no pending bits, the output buffer is a whole number of
\* bytes of at least HeaderSize, and nbSkippedBits is in [0,7] and equals
\* the number of padding bits at the end of the last output byte.
C23_AlignmentInvariant ==
    ~Panicked
        => /\ comp.bwBits = 0
           /\ OutLen(comp) >= HeaderSize
           /\ comp.nbSkippedBits \in 0..7
           /\ (Fresh /\ comp.level # NoCompression
                     /\ \A k \in 1..Len(hist) : IsOkWrite(hist[k]))
                 => 8 * (OutLen(comp) - HeaderSize) - comp.nbSkippedBits = EmittedBits(hist)

\* C24: zero padding. In compression mode, after every completed Write,
\* Revert and Reset, the nbSkippedBits trailing padding bits of the last
\* byte of Bytes() are all zero.
C24_ZeroPadding ==
    (/\ ~Panicked
     /\ comp.level # NoCompression
     /\ (hist = << >> \/ Last(hist).op \in {"Write", "Revert"}))
        => Last(Bytes(comp)) % (2 ^ comp.nbSkippedBits) = 0

\* the bits of out emitted so far: all bytes but the last, and the last
\* byte without its k padding bits
EmittedPrefix(out, k) == << Front(out), Last(out) \div (2 ^ k) >>

\* the same bits of out, where the output had length L and k padding bits
PrefixAt(out, L, k) == << SubSeq(out, 1, L - 1), out[L] \div (2 ^ k) >>

\* a successful Write in compression mode
CompressingWrite ==
    /\ Calls("Write")
    /\ Last(hist').ret = ""
    /\ comp.level # NoCompression
    /\ comp'.level # NoCompression

\* C29: emitted bits are stable. When no bypass occurs, a successful Write
\* never changes a bit emitted before it: if Bytes() had length L and k
\* padding bits before the Write, then after it the first L-1 bytes and the
\* top 8-k bits of byte L-1 are unchanged, and Len() has not decreased.
C29_EmittedBitsStable ==
    [][CompressingWrite
          => /\ OutLen(comp') >= OutLen(comp)
             /\ PrefixAt(Bytes(comp'), OutLen(comp), comp.nbSkippedBits)
                   = EmittedPrefix(Bytes(comp), comp.nbSkippedBits)]_vars

\* the length of the input after the k-th operation of hist
InputAfter(k) == Len(ConcatPayloads(SubSeq(hist, 1, k)))

\* the back-reference token t, emitted while the input was n bytes long,
\* has a length in [1, 2^maxBackrefLenLog2] that ends within the input; a
\* SHORT token starts in the input before its own position; a DYNAMIC token
\* starts in the input before its own position or lies within the
\* dictionary of dictLen bytes
ValidBackref(t, n, dictLen) ==
    /\ t.br.length >= 1
    /\ t.br.length <= 2 ^ maxBackrefLenLog2
    /\ t.at + t.br.length <= n
    /\ t.b = SymbolShort => (t.br.address >= 0 /\ t.br.address < t.at)
    /\ t.b = SymbolDynamic
          => \/ (t.br.address >= dictLen /\ t.br.address - dictLen < t.at)
             \/ (t.br.address >= 0 /\ t.br.address + t.br.length <= dictLen)

\* C30: every back-reference the compressor emits passes the decoder's
\* checks. A SHORT token refers only to already-emitted input; a DYNAMIC
\* token lies in already-emitted input or entirely inside the augmented
\* dictionary, never straddling the boundary; every token has a length in
\* [1, 256] and does not run past the end of the input.
C30_BackrefsPassDecoderChecks ==
    \A k \in 1..Len(hist) : \A n \in 1..Len(hist[k].toks) :
        ~hist[k].toks[n].lit
            => /\ ValidBackref(hist[k].toks[n], InputAfter(k), Len(comp.dictData))
               /\ Decompress(Bytes(comp), dict).err # "InvalidBackref"

\* the input the k-th operation of hist compressed: all payloads up to it
InputAt(k) == ConcatPayloads(SubSeq(hist, 1, k))

\* the c bytes of d from position i are equal
SameRun(d, i, c) == \A j \in 0..(c - 1) : At(d, i + j) = At(d, i)

\* the length of the run of equal bytes that starts at position i of d,
\* counted up to the longest back-reference
RunLength(d, i) ==
    LET runs == {c \in 1..Min(2 ^ maxBackrefLenLog2, Len(d) - i) : SameRun(d, i, c)}
    IN  CHOOSE c \in runs : \A x \in runs : x <= c

\* best(i): the better of the SHORT and the DYNAMIC back-reference found
\* for position i of d, computed afresh
Best(d, i, dictData, order) ==
    computeBackref(d, i, IF canEncodeSymbol(At(d, i)) THEN -1 ELSE 1, dictData, order)

\* the tokens of the turn of the loop that starts with token n of toks
TurnFrom(toks, n) ==
    LET later == {m \in (n + 1)..Len(toks) : toks[m].first}
    IN  SubSeq(toks, n, IF later = {} THEN Len(toks)
                        ELSE (CHOOSE m \in later : \A x \in later : m <= x) - 1)

\* token t is the literal d[i], or the back-reference b, emitted at i
IsLiteralAt(t, d, i) == t.lit /\ t.at = i /\ t.b = At(d, i)
IsBackrefAt(t, b, i) == ~t.lit /\ t.at = i /\ t.br = b

\* the lookahead rule at position i of d for the tokens of one turn
LookaheadRule(turn, d, i, dictData, order) ==
    LET best(p) == Best(d, p, dictData, order)
        literal == Len(turn) = 1 /\ IsLiteralAt(turn[1], d, i)
    IN  IF savings(best(i)) < 0 THEN literal
        ELSE IF i + 1 < Len(d) /\ savings(best(i + 1)) > savings(best(i)) + 1 THEN literal
        ELSE IF /\ i + 2 < Len(d)
                /\ At(d, i + 1) \notin {254, 255}
                /\ savings(best(i + 2)) > savings(best(i)) + 2
        THEN /\ Len(turn) = 2
             /\ IsLiteralAt(turn[1], d, i)
             /\ IsLiteralAt(turn[2], d, i + 1)
        ELSE Len(turn) = 1 /\ IsBackrefAt(turn[1], best(i), i)

\* the tokens toks cover d from position start to its end, each token
\* starting where the one before it ends and covering at least one byte
CoversExactly(toks, d, start) ==
    /\ toks = << >> => start = Len(d)
    /\ toks # << >> => toks[1].at = start
    /\ \A n \in 1..Len(toks) :
          /\ TokLen(toks[n]) >= 1
          /\ toks[n].at + TokLen(toks[n])
                = (IF n < Len(toks) THEN toks[n + 1].at ELSE Len(d))

\* C26: lookahead rule of the token chooser. At a position i holding a
\* non-reserved byte, outside the run-length path, the compressor emits d[i]
\* as a literal if best(i) has negative savings; otherwise d[i] as a literal
\* if i+1 < len(d) and savings(best(i+1)) > savings(best(i)) + 1; otherwise
\* d[i] and d[i+1] as literals if d[i+1] is not reserved, i+2 < len(d) and
\* savings(best(i+2)) > savings(best(i)) + 2; otherwise best(i). Every step
\* advances by at least one byte and the loop ends exactly at len(d).
C26_LookaheadRule ==
    \A k \in 1..Len(hist) :
        /\ CoversExactly(hist[k].toks, InputAt(k), Len(InputAt(k - 1)))
        /\ \A n \in 1..Len(hist[k].toks) :
              (/\ hist[k].toks[n].first
               /\ At(InputAt(k), hist[k].toks[n].at) \notin {254, 255}
               /\ RunLength(InputAt(k), hist[k].toks[n].at) < minRepeatingBytes)
                  => LookaheadRule(TurnFrom(hist[k].toks, n), InputAt(k),
                                   hist[k].toks[n].at, comp.dictData, comp.order)

\* C26 witness: at a position with a back-reference of non-negative
\* savings a Write emitted two literals for a better back-reference two
\* bytes ahead, and then that back-reference
C26_Witness ==
    /\ hist # << >>
    /\ \E n \in 1..(Len(Last(hist).toks) - 2) :
          LET toks == Last(hist).toks
          IN  /\ toks[n].first /\ toks[n].lit
              /\ ~toks[n + 1].first /\ toks[n + 1].lit
              /\ toks[n + 2].first /\ ~toks[n + 2].lit
              /\ savings(Best(InputAt(Len(hist)), toks[n].at, comp.dictData, comp.order)) >= 0

\* one turn of the general path of write at position i when best(p) is
\* recomputed on every query
RecomputedTurn(d, i, dictData, order) ==
    LET best(p) == Best(d, p, dictData, order)
    IN  IF At(d, i) \in {254, 255} THEN << RefTok(best(i), i) >>
        ELSE IF savings(best(i)) < 0 THEN << LitTok(At(d, i), i) >>
        ELSE IF i + 1 < Len(d) /\ savings(best(i + 1)) > savings(best(i)) + 1
        THEN << LitTok(At(d, i), i) >>
        ELSE IF /\ i + 2 < Len(d)
                /\ At(d, i + 1) \notin {254, 255}
                /\ savings(best(i + 2)) > savings(best(i)) + 2
        THEN << LitTok(At(d, i), i), LitTok(At(d, i + 1), i + 1) >>
        ELSE << RefTok(best(i), i) >>

\* the tokens of write from position i when no back-reference is cached
RECURSIVE Recomputed(_, _, _, _, _)
Recomputed(d, i, dictData, reservedIdx, order) ==
    IF i >= Len(d) THEN << >>
    ELSE LET count == RunCount(d, i, 0)
             toks  == IF count >= minRepeatingBytes
                      THEN RunTokens(d, i, count, dictData, reservedIdx)
                      ELSE RecomputedTurn(d, i, dictData, order)
         IN  Turn(toks) \o Recomputed(d, i + TokSpan(toks), dictData, reservedIdx, order)

\* the circular buffers write holds after each turn of its loop from
\* position i, where it holds cb
RECURSIVE CachesOf(_, _, _, _, _)
CachesOf(d, i, cb, dictData, order) ==
    IF i >= Len(d) THEN {cb}
    ELSE IF RunCount(d, i, 0) >= minRepeatingBytes
    THEN CachesOf(d, i + RunCount(d, i, 0), cb, dictData, order)
    ELSE LET r == ChooseTokens(d, i, cb, dictData, order)
         IN  {cb} \cup CachesOf(d, i + TokSpan(r.toks), r.cb, dictData, order)

\* a hit of cb for any position of d gives the back-reference computed for
\* that position
HitsAreExact(cb, d, dictData, order) ==
    \A p \in 0..(Len(d) - 1) :
        cbBest(cb, p).ok => cbBest(cb, p).b = Best(d, p, dictData, order)

\* C27: the 3-slot lookahead cache is transparent. For every input and
\* start index, the tokens the chooser emits with the circular buffer are
\* those it emits when best(i) is recomputed on every query, and a cache
\* hit for position p returns the value computed for p in the same write
\* call.
C27_CacheTransparent ==
    \A k \in 1..Len(hist) :
        hist[k].ret = ""
            => /\ hist[k].toks = Recomputed(InputAt(k), Len(InputAt(k - 1)), comp.dictData,
                                            comp.dictReservedIdx, comp.order)
               /\ \A cb \in CachesOf(InputAt(k), Len(InputAt(k - 1)), newCircularBuffer,
                                     comp.dictData, comp.order) :
                     HitsAreExact(cb, InputAt(k), comp.dictData, comp.order)

\* C27 witness: a turn looked one byte ahead, found a better back-reference
\* there and emitted a literal; the next turn emitted that back-reference,
\* which the circular buffer held
C27_Witness ==
    /\ hist # << >>
    /\ \E n \in 1..(Len(Last(hist).toks) - 1) :
          LET toks == Last(hist).toks
              d    == InputAt(Len(hist))
              r0   == bestBackref(d, toks[n].at, newCircularBuffer, comp.dictData, comp.order)
              r1   == bestBackref(d, toks[n].at + 1, r0.cb, comp.dictData, comp.order)
          IN  /\ toks[n].first /\ toks[n].lit
              /\ toks[n + 1].first /\ ~toks[n + 1].lit
              /\ savings(r0.b) >= 0
              /\ cbBest(r1.cb, toks[n + 1].at).ok
              /\ toks[n + 1].br = cbBest(r1.cb, toks[n + 1].at).b

\* token t is a back-reference of the given length, emitted at position i,
\* to the byte just before i
IsRunBackref(t, i, length) ==
    ~t.lit /\ t.at = i /\ t.br.length = length /\ AddressField(t) + 1 = 1

\* token t stands for the byte d[i] alone: a literal, or for a reserved
\* byte a DYNAMIC reference of length 1 to that byte in the dictionary
IsHeadToken(t, d, i, dictData) ==
    /\ t.at = i
    /\ At(d, i) \notin {254, 255} => (t.lit /\ t.b = At(d, i))
    /\ At(d, i) \in {254, 255}
          => /\ ~t.lit /\ t.b = SymbolDynamic /\ t.br.length = 1
             /\ t.br.address >= 0 /\ t.br.address < Len(dictData)
             /\ At(dictData, t.br.address) = At(d, i)

\* the run-length path at position i of d, where a run of c bytes starts,
\* for the tokens of one turn
RunLengthRule(turn, d, i, c, dictData) ==
    /\ TokSpan(turn) = c
    /\ IF i > 0 /\ At(d, i - 1) = At(d, i)
       THEN Len(turn) = 1 /\ IsRunBackref(turn[1], i, c)
       ELSE /\ Len(turn) = 2
            /\ IsHeadToken(turn[1], d, i, dictData)
            /\ IsRunBackref(turn[2], i + 1, c - 1)

\* C28: run-length fast path. When position i starts a run of c bytes
\* equal to d[i] with c >= minRepeatingBytes (c counted up to the longest
\* back-reference), the compressor emits no head token if i > 0 and
\* d[i-1] = d[i], and otherwise one head token for d[i] (a literal, or a
\* length-1 DYNAMIC dictionary reference if d[i] is 0xFE/0xFF); it then
\* emits exactly one back-reference with back-distance 1 covering the rest
\* of the c bytes, and advances by c bytes in total.
C28_RunLengthPath ==
    \A k \in 1..Len(hist) : \A n \in 1..Len(hist[k].toks) :
        (/\ hist[k].toks[n].first
         /\ RunLength(InputAt(k), hist[k].toks[n].at) >= minRepeatingBytes)
            => RunLengthRule(TurnFrom(hist[k].toks, n), InputAt(k), hist[k].toks[n].at,
                             RunLength(InputAt(k), hist[k].toks[n].at), comp.dictData)

\* C28 witness: a Write ended with a reserved byte and the next Write began
\* with a run of that byte, which was emitted as one back-reference of the
\* run's length to the byte before it, without a head token
C28_Witness ==
    /\ Len(hist) = 2
    /\ IsOkWrite(hist[1]) /\ IsOkWrite(hist[2])
    /\ hist[1].d # << >>
    /\ Last(hist[1].d) \in {254, 255}
    /\ Len(hist[2].d) >= minRepeatingBytes
    /\ SameRun(hist[2].d, 0, Len(hist[2].d))
    /\ hist[2].d[1] = Last(hist[1].d)
    /\ Len(hist[2].toks) = 1
    /\ IsRunBackref(hist[2].toks[1], Len(hist[1].d), Len(hist[2].d))

\* ---- C21
\* the serialized size of the stream of the behaviour, and the number of
\* lengths its length field can hold
SizeOfStream == StreamSerializedSize(Len(todo), bitLen(base.NbSymbs), base.nbBits)
LengthsHeld == base.NbSymbs ^ wordsForNb(bitLen(base.NbSymbs))
RoundTrips ==
    /\ calls[1].ret = ""
    /\ Len(calls) = 2 => calls[2].ret = [D |-> todo, err |-> ""]

\* C21 as stated: a dst of at least the serialized size, whatever it held,
\* makes FillBytes succeed and ReadBytes give back s.D; a shorter dst makes
\* FillBytes return an error
C21_RoundTripAsStated ==
    calls # << >> =>
        /\ Len(calls[1].arg.dst) >= SizeOfStream => RoundTrips
        /\ Len(calls[1].arg.dst) < SizeOfStream => calls[1].ret # ""

\* C21 amended: the same for streams whose length fits the length field; for
\* the others FillBytes returns an error and leaves dst as it was
C21_RoundTrip ==
    calls # << >> =>
        /\ (Len(calls[1].arg.dst) >= SizeOfStream /\ Len(todo) < LengthsHeld)
               => RoundTrips
        /\ (Len(calls[1].arg.dst) < SizeOfStream \/ Len(todo) >= LengthsHeld)
               => (calls[1].ret # "" /\ stream = calls[1].arg.dst)

\* a stream of several words, packed into a dirty dst longer than needed in
\* elements of more than one byte, and read back
C21_Witness ==
    /\ Len(calls) = 2
    /\ Len(todo) >= 2
    /\ base.nbBits > 8
    /\ Len(calls[1].arg.dst) > SizeOfStream
    /\ calls[1].arg.dst[1] = 255
    /\ calls[2].ret = [D |-> todo, err |-> ""]

\* ---- C22
\* C22: for a code over at least two symbols, no call of the round trip
\* panics, and the Read of len(text) symbols returns the text without error
C22_HuffmanRoundTrip ==
    Len(base) >= 2 =>
        /\ \A k \in 1..Len(calls) : calls[k].ret.panic = ""
        /\ Len(calls) >= 3 => calls[3].ret.panic = ""
        /\ Len(calls) = 4 =>
               /\ calls[4].ret.p = todo
               /\ calls[4].ret.n = Len(todo)
               /\ calls[4].ret.err = ""

====
